---- MODULE Spec2Model ----
(***************************************************************************)
(* Model of package trace of kolosys/lumen: the Tracer (span pool,         *)
(* synchronous and asynchronous export pipeline, Close) and the Span       *)
(* lifecycle (Start, mutation methods, End).                               *)
(*                                                                         *)
(* Caller threads run Start, the mutation methods, End and Close; one      *)
(* worker drains the asynchronous queue.  Each shared-memory access of the *)
(* export pipeline (the closed flag, the channel, the exporter call, the   *)
(* pool) is a step of its own, so that the interleavings of End, Close and *)
(* the worker are those of the code.                                       *)
(*                                                                         *)
(* Identifiers: crypto/rand identifiers are modelled as fresh numbers, 0   *)
(* being the all-zero (invalid) identifier.  The k-th span handed out by   *)
(* Start has span ID k; a root span started as k-th span has trace ID k.   *)
(***************************************************************************)
EXTENDS Integers, Sequences, FiniteSets, TLC

\* ---------------------------------------------------------------- bounds
Threads == {"t1", "t2"}       \* caller goroutines
MaxSpans == 2                 \* Start calls that hand out a span
MaxObjs == 2                  \* Span objects ever allocated
MaxMut == 1                   \* mutation-method calls
QueueCap == 1                 \* Options.AsyncBufferSize of the modelled tracer
MaxSamplerCalls == 2          \* ShouldSample calls made on a sampler directly
MaxRatioCalls == 13           \* ShouldSample calls made on the RatioSampler
MaxClampCalls == 2            \* ShouldSample calls made on a RatioSampler to compare it
MaxExports == 3               \* InMemoryExporter.Export calls
MaxSnapshots == 1             \* InMemoryExporter.Spans calls
MaxLogs == 2                  \* entries that logging calls accept
LogBufferSize == 1            \* Options.AsyncBufferSize of the modelled Logger
MaxRate == 1                  \* largest rate given to NewRateSampler
MaxWindow == 1                \* largest window given to NewRateSampler, in clock ticks
MaxTicks == 2                 \* ticks the clock advances
MaxRateCalls == 3             \* RateSampler.Sample calls
MaxCountN == 3                \* largest n given to NewCountSampler
MaxCountCalls == 9            \* CountSampler.Sample calls
MaxFirstN == 2                \* largest n given to NewFirstNSampler
MaxFirstNCalls == 6           \* FirstNSampler.Sample calls
MaxRegistryCalls == 5         \* calls made on a metrics Registry
MaxPushes == 2                \* ticks of the Registry's push ticker
MaxWrites == 3                \* mutation-method calls on spans that are not ended
MaxWriterExports == 3         \* WriterExporter.Export calls

VARIABLES
    async,      \* Options.AsyncExport (asyncCh # nil)
    closed,     \* Tracer.closed
    once,       \* Tracer.closeOnce: "idle", "running", "done"
    chClosed,   \* close(asyncCh) has happened
    queue,      \* asyncCh: the buffered spans, oldest first
    worker,     \* asyncWorker: its position and the span it holds
    pool,       \* Tracer.spanPool: how many times each object is in it
    nalloc,     \* Span objects allocated so far (objects 1..nalloc exist)
    obj,        \* the fields of every Span object
    pc,         \* position of every caller thread
    cur,        \* the call a thread is in: the handle and the *Span it was made on
    loc,        \* Start's locals: the context it was given
    nspans,     \* spans handed out so far (handles 1..nspans)
    nmut,       \* mutation-method calls made so far
    hs,         \* per handle: what Start handed out (history)
    last,       \* the latest Start: its arguments and the span it returned (history)
    owner,      \* per handle: the thread that owns the span, "" once its End returned
    endRet,     \* per handle: an End() call on it has returned
    endRetPre,  \* per handle: an End() call on it returned before any Close() call
    expLog,     \* Exporter.Export calls: the object and the span the exporter saw, the
                \* kind of thread that called, the handle of the End() call behind it
    expCount,   \* Exporter.Export calls per span ID seen by the exporter
    relCount,   \* releaseSpan calls per span ID the object carried when released
    closeRet,   \* a Close() call has returned
    panicked,   \* a goroutine panicked (send on closed channel)
    sampCalls,  \* Sampler.ShouldSample calls made by Start (history)
    ratioSampler, \* the RatioSampler instance: ratio, threshold and counter
    sampLocal,  \* per thread: the count its RatioSampler.ShouldSample call got from Add
    sampLog,    \* the ShouldSample calls made on a sampler directly, with their results
    lib         \* the component beside the tracer that is in use, with its callers:
                \* the EndFunc closures, a sampler that records its calls, the
                \* header functions, the InMemoryExporter, the asynchronous
                \* Logger, the logs RateSampler, the logs CountSampler, the logs
                \* FirstNSampler, the metrics Registry or the WriterExporter; the
                \* mutation-method calls when they are taken step by step

vars == << async, closed, once, chClosed, queue, worker, pool, nalloc, obj, pc, cur, loc,
           nspans, nmut, hs, last, owner, endRet, endRetPre, expLog,
           expCount, relCount, closeRet, panicked, sampCalls, ratioSampler, sampLocal,
           sampLog, lib >>

\* The tracer's state, the history of the calls made on it included.
tracerVars ==
    << async, closed, once, chClosed, queue, worker, pool, nalloc, obj, pc, cur, loc,
       nspans, nmut, hs, last, owner, endRet, endRetPre, expLog, expCount, relCount,
       closeRet, panicked >>

\* The samplers' state.
sampVars == << sampCalls, ratioSampler, sampLocal, sampLog >>

\* The state of the component that stands beside the tracer.
libVars == << lib >>

\* The EndFunc closures: per thread the call of a closure under way (handle,
\* error), and as history per handle the closure called on it, with the span
\* it found.
endFn == lib.endFn

endFnLog == lib.endFnLog

\* A sampler that records its calls: per handle the sampler call Start made:
\* its SamplingParams, the span as it was then, the span before the options,
\* the options.
startLog == lib.startLog

\* The latest call of a header function: its input and what it returned.
parsed == lib

\* The InMemoryExporter and its callers: spans (the slice: its array, length
\* and capacity), heap (the arrays that slices of *spanData point into), pc
\* (per thread: its position in Export, and its data), n (Export calls
\* started), and as history order (the spanData appended since the latest
\* Clear()), done (the Export calls that returned since then, and whether that
\* Clear() ran during an Export call), snaps (the slices Spans() returned, with
\* their contents then), len (the latest Len() call).
mem == lib

\* The asynchronous Logger and its callers: logger (per Logger value: it was
\* made, its closed flag, its asyncWg counter), ch (asyncCh, shared with the
\* derived logger: its buffer, whether it is closed), worker (asyncWorker: its
\* position and entry), pc (per thread: its position in log or Close), n
\* (entries accepted), output (the entries written to Options.Output),
\* panicked, and as history returned (the entries whose logging call has
\* returned), closes (the Close() calls that returned: the logger, the entries
\* returned when Close() was called, the output when it returned).
logs == lib

\* The logs RateSampler and its callers: rate, window, buckets (per message
\* the rateBucket: count, lastReset), pc (per thread: its position in Sample,
\* with the call's locals), clock (time.Now().UnixNano(), in ticks), calls
\* (Sample calls started), and as history passed (per message: the calls that
\* returned true since the latest reset of its window), log (the calls that
\* returned).
rateSampler == lib

\* The logs CountSampler and its callers: n, counts (per message the counter),
\* pc (per thread: its position in Sample), calls (Sample calls started), and
\* as history log (the calls that returned: the message, the count they got
\* from Add, the result).
countSampler == lib

\* The logs FirstNSampler and its callers: n, counts (per message the
\* counter), pc (per thread: its position in Sample), calls (Sample calls
\* started), and as history passed (per message: the calls that returned
\* true), log (the calls that returned: the message, the count they got from
\* Add, the result).
firstNSampler == lib

\* The metrics Registry and its callers: metrics (per name the metric
\* registered), closed, closeOnce, pushCancel (it is set), cancelled (the push
\* context), pushWg, pushLoop (its position), samples (what it collected),
\* ticks, pc (per thread: its position in Register or Close), calls (calls
\* started), and as history closeRet (a Close() call has returned), closes
\* (the Close() calls that returned), ncloses, exports (PushExporter.Export
\* calls), exportsAfterClose (those made after a Close() call had returned),
\* expect (per name the metric of the latest Register call that returned nil,
\* none after Unregister), regLog (the Register calls that returned), getLog
\* (the Get calls, with that metric).
registry == lib

\* The calls of mutation methods taken step by step: call (per thread: the
\* call that passed the first statement and waits for the mutex: the span it
\* was made on, its object, the method, the number of the call), and as
\* history applied (the calls that wrote); max (the calls that will be made).
writes == lib

\* The WriterExporter and its callers: writer (the bytes written to the
\* io.Writer: the bytes of an object are "{", the span ID, "}"), mu (the thread
\* that holds the mutex), pc (per thread: its position in Export, and its
\* data), calls (Export calls started), and as history returned (the data of
\* the Export calls that returned, in that order).
writerExporter == lib

\* The state outside the tracer and the samplers.
extVars == << libVars >>

histVars == << hs, last, owner, endRet, endRetPre, expLog, expCount, relCount,
               closeRet, panicked >>

Objs == 1..MaxObjs
Handles == 1..MaxSpans

\* ---------------------------------------------------------------- spans
StatusUnset == "unset"
StatusOK == "ok"
StatusError == "error"

\* A Span as the pool's New function and reset() leave it.
ZeroSpan ==
    [ tracer |-> FALSE, traceID |-> 0, spanID |-> 0, parentID |-> 0, name |-> "",
      startTime |-> 0, endTime |-> 0, status |-> StatusUnset, statusMsg |-> "",
      attributes |-> << >>, events |-> << >>, sampled |-> FALSE, noop |-> FALSE,
      ended |-> FALSE ]

\* &Span{noop: true}
NoopSpan == [ZeroSpan EXCEPT !.noop = TRUE]

\* Variant of reset for comparison: the attribute and event buffers are not truncated.
resetKeepsBuffers(s) ==
    [ s EXCEPT !.tracer = FALSE, !.traceID = 0, !.spanID = 0, !.parentID = 0,
               !.name = "", !.startTime = 0, !.endTime = 0, !.status = StatusUnset,
               !.statusMsg = "", !.sampled = FALSE, !.noop = FALSE, !.ended = FALSE ]

\* Span.reset: every field back to its zero value, the buffers truncated.
reset(s) ==
    [ s EXCEPT !.tracer = FALSE, !.traceID = 0, !.spanID = 0, !.parentID = 0,
               !.name = "", !.startTime = 0, !.endTime = 0, !.status = StatusUnset,
               !.statusMsg = "", !.attributes = << >>, !.events = << >>,
               !.sampled = FALSE, !.noop = FALSE, !.ended = FALSE ]

\* TraceID.IsValid / SpanID.IsValid: not all-zero.
IsValid(id) == id # 0

\* The TraceContext values a context may hold: none, one extracted from a
\* well-formed header, one whose trace ID is all-zero (ParseW3CTraceparent and a
\* TraceContext literal both yield it).
TCKinds == {"none", "valid", "zero"}

\* The same with the sampled bit of the trace flags: "valid" comes with flags
\* 01, "unsampled" is a well-formed one with flags 00.
TCKindsFlagged == TCKinds \cup {"unsampled"}

TraceContextOf(kind) ==
    IF kind \in {"valid", "unsampled"}
    THEN [TraceID |-> MaxSpans + 1, SpanID |-> MaxSpans + 2,
          TraceFlags |-> IF kind = "valid" THEN 1 ELSE 0]
    ELSE [TraceID |-> 0, SpanID |-> MaxSpans + 2, TraceFlags |-> 1]

\* TraceContext.IsSampled: tc.TraceFlags&0x01 != 0
TraceContextIsSampled(tc) == tc.TraceFlags % 2 = 1

Idle(t) == pc[t] = "idle"

\* The context's span as Start reads it (nil: the context holds none).
NoParent == [traceID |-> 0, spanID |-> 0, nil |-> TRUE]
ParentOf(par) ==
    IF par = 0 THEN NoParent
    ELSE [traceID |-> obj[hs[par].obj].traceID, spanID |-> obj[hs[par].obj].spanID,
          nil |-> FALSE]

\* ---------------------------------------------------------------- initial state
\* No RatioSampler has been made yet.
NoRatioSampler == [made |-> FALSE, ratio |-> 0, threshold |-> 0, counter |-> 0]

\* No EndFunc closure is being called; none has been called on a handle.
NoClosure == [k |-> 0, errPtr |-> "nilPtr"]
NotCalled == [called |-> FALSE, errPtr |-> "nilPtr", before |-> ZeroSpan]

\* Start has made no sampler call for a handle.
NoSamplerCall ==
    [called |-> FALSE, params |-> [TraceID |-> 0, Name |-> "", ParentID |-> 0],
     seen |-> ZeroSpan, resolved |-> ZeroSpan, opts |-> << >>]

\* No header function has been called yet.
NoParse == [fn |-> "none"]

\* The Logger that New makes with AsyncBufferSize > 0 ("root") and the logger
\* that With, Named or clone derive from it ("child").
Loggers == {"root", "child"}

\* New with AsyncBufferSize > 0: asyncWg.Add(1) for the worker it starts. A
\* derived logger gets the zero closed flag and the zero asyncWg.
NewLogger == [made |-> TRUE, closed |-> FALSE, wg |-> 1]
DerivedLogger == [made |-> TRUE, closed |-> FALSE, wg |-> 0]
NoLogger == [made |-> FALSE, closed |-> FALSE, wg |-> 0]

\* A thread that is in no call on a Logger.
NoLogCall == [pc |-> "idle", l |-> "root", e |-> 0, before |-> {}]

\* The messages passed to the logs samplers.
Messages == {"a", "b"}

\* A message without a bucket (LoadOrStore stores &rateBucket{}: count 0,
\* lastReset 0); a thread that is in no Sample call.
NoBucket == [made |-> FALSE, count |-> 0, lastReset |-> 0]
NoRateCall == [pc |-> "idle", msg |-> "a", now |-> 0, lastReset |-> 0, elapsed |-> FALSE,
               overlapped |-> FALSE]

\* A message without a counter (LoadOrStore stores &atomic.Int64{}); a thread
\* that is in no Sample call.
NoCounter == [made |-> FALSE, count |-> 0]
NoCountCall == [pc |-> "idle", msg |-> "a"]

NoCall == [k |-> 0, o |-> 0]
NoLoc == [par |-> 0, tc |-> "none", after |-> FALSE]

\* New(opts): an open tracer with an empty pool; with AsyncExport the queue is
\* made and the worker goroutine started.
\* No component beside the tracer is in use.
NotMade == [made |-> FALSE]

\* The tracer New returned, synchronous or asynchronous; no call made yet.
InitTracer ==
    /\ async \in BOOLEAN
    /\ closed = FALSE
    /\ once = "idle"
    /\ chClosed = FALSE
    /\ queue = << >>
    /\ worker = [pc |-> IF async THEN "recv" ELSE "none", o |-> 0, call |-> 0]
    /\ pool = [o \in Objs |-> 0]
    /\ nalloc = 0
    /\ obj = [o \in Objs |-> ZeroSpan]
    /\ pc = [t \in Threads |-> "idle"]
    /\ cur = [t \in Threads |-> NoCall]
    /\ loc = [t \in Threads |-> NoLoc]
    /\ nspans = 0
    /\ nmut = 0
    /\ hs = << >>
    /\ last = [k |-> 0, par |-> 0, parent |-> NoParent, tc |-> "none", opts |-> << >>,
               born |-> ZeroSpan]
    /\ owner = [k \in Handles |-> ""]
    /\ endRet = [k \in Handles |-> FALSE]
    /\ endRetPre = [k \in Handles |-> FALSE]
    /\ expLog = {}
    /\ expCount = [i \in 0..MaxSpans |-> 0]
    /\ relCount = [i \in 0..MaxSpans |-> 0]
    /\ closeRet = FALSE
    /\ panicked = FALSE
    /\ sampCalls = 0
    /\ ratioSampler = NoRatioSampler
    /\ sampLocal = [t \in Threads |-> 0]
    /\ sampLog = {}

\* The tracer alone: no component beside it is in use.
Init == InitTracer /\ lib = NotMade

\* No closure made by EndFunc was called yet.
NewEndFuncs == [endFn |-> [t \in Threads |-> NoClosure],
                endFnLog |-> [k \in Handles |-> NotCalled]]

\* The tracer, and closures made by EndFunc.
InitEndFunc == InitTracer /\ lib = NewEndFuncs

\* The sampler records its calls: none was made yet.
RecordingSampler == [startLog |-> [k \in Handles |-> NoSamplerCall]]

\* The tracer with a sampler that records its calls.
InitOptions == InitTracer /\ lib = RecordingSampler

\* ---------------------------------------------------------------- Tracer.Start
InStart(t) == pc[t] \in {"startGet", "startFill"}

\* What Start hands out: per handle the object, the no-op flag, the sampler's
\* decision and the trace ID given; for the latest Start also what it was
\* called with (parent is the context's span as Start read it) and the span
\* as it was returned.
Handed(t, o, s, par, parent, tc, opts, dec, after) ==
    /\ nspans' = nspans + 1
    /\ hs' = Append(hs, [obj |-> o, noop |-> s.noop, sampled |-> dec,
                         traceID |-> s.traceID, after |-> after])
    /\ last' = [k |-> nspans + 1, par |-> par, parent |-> parent, tc |-> tc,
                opts |-> opts, born |-> s]
    /\ owner' = [owner EXCEPT ![nspans + 1] = t]

\* Start, first step: the closed check.  A closed tracer returns a new no-op
\* span and the context unchanged; an open one goes on to getSpan.  par is the
\* span the context holds (0: none), tc the TraceContext it holds.
StartCheck(t, par, tc) ==
    /\ Idle(t)
    /\ nspans + Cardinality({u \in Threads : InStart(u)}) < MaxSpans
    /\ nalloc + Cardinality({u \in Threads : pc[u] = "startGet"}) < MaxObjs
    /\ IF closed
       THEN /\ nalloc' = nalloc + 1
            /\ obj' = [obj EXCEPT ![nalloc + 1] = NoopSpan]
            /\ Handed(t, nalloc + 1, NoopSpan, par, NoParent, tc, << >>, FALSE, closeRet)
            /\ UNCHANGED << pc, loc >>
       ELSE /\ pc' = [pc EXCEPT ![t] = "startGet"]
            /\ loc' = [loc EXCEPT ![t] = [par |-> par, tc |-> tc, after |-> closeRet]]
            /\ UNCHANGED << nalloc, obj, nspans, hs, last, owner >>
    /\ UNCHANGED << async, closed, once, chClosed, queue, worker, pool, cur, nmut,
                    endRet, endRetPre, expLog, expCount, relCount,
                    closeRet, panicked >>
    /\ UNCHANGED << sampVars, extVars >>

\* getSpan: an object of the pool, or a new one when sync.Pool calls New; reset.
getSpan(t, o) ==
    /\ pc[t] = "startGet"
    /\ \/ /\ pool[o] > 0
          /\ pool' = [pool EXCEPT ![o] = @ - 1]
          /\ UNCHANGED nalloc
       \/ /\ o = nalloc + 1
          /\ nalloc' = o
          /\ UNCHANGED pool
    /\ obj' = [obj EXCEPT ![o] = reset(@)]
    /\ cur' = [cur EXCEPT ![t] = [k |-> 0, o |-> o]]
    /\ pc' = [pc EXCEPT ![t] = "startFill"]
    /\ UNCHANGED << async, closed, once, chClosed, queue, worker, loc, nspans, nmut >>
    /\ UNCHANGED histVars
    /\ UNCHANGED << sampVars, extVars >>

\* Variant of ResolveParent for comparison: the TraceContext is looked at before the span.
ResolveParentContextFirst(s, parent, tc, fresh) ==
    IF tc # "none" /\ IsValid(TraceContextOf(tc).TraceID)
    THEN [s EXCEPT !.traceID = TraceContextOf(tc).TraceID,
                   !.parentID = TraceContextOf(tc).SpanID]
    ELSE IF ~parent.nil /\ IsValid(parent.traceID)
    THEN [s EXCEPT !.traceID = parent.traceID, !.parentID = parent.spanID]
    ELSE [s EXCEPT !.traceID = fresh]

\* Start's parent resolution: the context's span if its trace ID is valid, else
\* the context's TraceContext if its trace ID is valid, else a new trace.
\* parent is the parent Span as read now (NoParent for nil).
ResolveParent(s, parent, tc, fresh) ==
    IF ~parent.nil /\ IsValid(parent.traceID)
    THEN [s EXCEPT !.traceID = parent.traceID, !.parentID = parent.spanID]
    ELSE IF tc # "none" /\ IsValid(TraceContextOf(tc).TraceID)
    THEN [s EXCEPT !.traceID = TraceContextOf(tc).TraceID,
                   !.parentID = TraceContextOf(tc).SpanID]
    ELSE [s EXCEPT !.traceID = fresh]

\* The SamplingParams Start hands to the sampler: the trace ID and the parent
\* ID the span got from the parent resolution, and its name.
SamplingParamsOf(t) ==
    LET s == ResolveParent(obj[cur[t].o], ParentOf(loc[t].par), loc[t].tc, nspans + 1)
    IN [TraceID |-> s.traceID, Name |-> "op", ParentID |-> s.parentID]

\* Variant of ParentBasedShouldSample for comparison: root is always asked.
ParentBasedAlwaysAsksRoot(params, root) ==
    [result |-> IsValid(params.ParentID) \/ root, rootCalls |-> 1]

\* ParentBasedSampler.ShouldSample: true for a valid parent ID, else what the
\* root sampler returns.  root is the value root.ShouldSample(params) returns
\* when called; rootCalls is the number of times it is called.
ParentBasedShouldSample(params, root) ==
    IF IsValid(params.ParentID)
    THEN [result |-> TRUE, rootCalls |-> 0]
    ELSE [result |-> root, rootCalls |-> 1]

\* WithAttributes(attrs...)
WithAttributes(s, attrs) == [s EXCEPT !.attributes = @ \o attrs]

\* WithStartTime(t)
WithStartTime(s, time) == [s EXCEPT !.startTime = time]

\* for _, opt := range opts { opt(span) }: an option is the attributes
\* WithAttributes was given (a sequence) or the time WithStartTime was given.
RECURSIVE ApplyOptions(_, _)
ApplyOptions(s, opts) ==
    IF opts = << >> THEN s
    ELSE ApplyOptions(IF Head(opts).fn = "WithAttributes"
                      THEN WithAttributes(s, Head(opts).attrs)
                      ELSE WithStartTime(s, Head(opts).time),
                      Tail(opts))

\* Variant of SamplingParamsFrom for comparison: a span that has attributes
\* is presented to the sampler as a root span.
SamplingParamsRootIfAttributes(s, name) ==
    [TraceID |-> s.traceID, Name |-> name,
     ParentID |-> IF s.attributes # << >> THEN 0 ELSE s.parentID]

\* SamplingParams{TraceID: span.traceID, Name: name, ParentID: span.parentID},
\* read from the span as it is when Start calls the sampler.
SamplingParamsFrom(s, name) ==
    [TraceID |-> s.traceID, Name |-> name, ParentID |-> s.parentID]

\* The span before Start applies the options: the parent resolved, the span
\* ID generated.
SpanResolved(t) ==
    LET s1 == [obj[cur[t].o] EXCEPT !.tracer = TRUE, !.name = "op", !.startTime = 1]
        s2 == ResolveParent(s1, ParentOf(loc[t].par), loc[t].tc, nspans + 1)
    IN [s2 EXCEPT !.spanID = nspans + 1]

\* The span when Start calls the sampler: the options applied.
SpanAtSample(t, opts) == ApplyOptions(SpanResolved(t), opts)

\* Start after getSpan: the fields, the options, the sampler's decision.
StartFill(t, opts, dec) ==
    /\ pc[t] = "startFill"
    /\ LET o == cur[t].o
           s3 == SpanAtSample(t, opts)
           s4 == [s3 EXCEPT !.sampled = dec]
       IN /\ obj' = [obj EXCEPT ![o] = s4]
          /\ lib' = IF "startLog" \in DOMAIN lib
                     THEN [lib EXCEPT !.startLog[nspans + 1] =
                              [called |-> TRUE, params |-> SamplingParamsFrom(s3, "op"),
                               seen |-> s3, resolved |-> SpanResolved(t), opts |-> opts]]
                     ELSE lib
          /\ Handed(t, o, s4, loc[t].par, ParentOf(loc[t].par), loc[t].tc, opts, dec, loc[t].after)
    /\ pc' = [pc EXCEPT ![t] = "idle"]
    /\ cur' = [cur EXCEPT ![t] = NoCall]
    /\ loc' = [loc EXCEPT ![t] = NoLoc]
    /\ UNCHANGED << async, closed, once, chClosed, queue, worker, pool, nalloc, nmut,
                    endRet, endRetPre, expLog, expCount, relCount,
                    closeRet, panicked >>
    /\ sampCalls' = sampCalls + 1
    /\ UNCHANGED << ratioSampler, sampLocal, sampLog >>

\* ---------------------------------------------------------------- mutation methods
\* Variant of Ignores for comparison: the no-op flag is not looked at.
IgnoresEndedOnly(s) == s.ended

\* The guard every mutation method starts with: s.noop || s.ended.Load().
Ignores(s) == s.noop \/ s.ended

spanSetAttribute(s, key) ==
    IF Ignores(s) THEN s ELSE [s EXCEPT !.attributes = Append(@, key)]

spanSetAttributes(s, attrs) ==
    IF Ignores(s) THEN s ELSE [s EXCEPT !.attributes = @ \o attrs]

spanAddEvent(s, name) ==
    IF Ignores(s) THEN s ELSE [s EXCEPT !.events = Append(@, name)]

spanSetStatus(s, status, msg) ==
    IF Ignores(s) THEN s ELSE [s EXCEPT !.status = status, !.statusMsg = msg]

\* Variant of spanRecordError for comparison: the status is set, no event is added.
spanRecordErrorStatusOnly(s, err) ==
    IF err = "nil" \/ Ignores(s) THEN s ELSE spanSetStatus(s, StatusError, err)

\* RecordError: nothing for a nil error; else the "exception" event and status Error.
spanRecordError(s, err) ==
    IF err = "nil" \/ Ignores(s) THEN s
    ELSE spanSetStatus(spanAddEvent(s, "exception"), StatusError, err)

\* A mutation-method call by thread t on handle k that leaves the span as s2.
Mutation(t, k, s2) ==
    /\ Idle(t)
    /\ k \in 1..nspans
    /\ nmut < MaxMut
    /\ nmut' = nmut + 1
    /\ obj' = [obj EXCEPT ![hs[k].obj] = s2]
    /\ UNCHANGED << async, closed, once, chClosed, queue, worker, pool, nalloc, pc, cur,
                    loc, nspans, hs, last, owner, endRet, endRetPre, expLog,
                    expCount, relCount, closeRet, panicked >>
    /\ UNCHANGED << sampVars, extVars >>

SetAttribute(t, k) == Mutation(t, k, spanSetAttribute(obj[hs[k].obj], "key"))

SetAttributes(t, k) == Mutation(t, k, spanSetAttributes(obj[hs[k].obj], << "a", "b" >>))

AddEvent(t, k) == Mutation(t, k, spanAddEvent(obj[hs[k].obj], "event"))

SetStatus(t, k) ==
    \E st \in {StatusOK, StatusError} : Mutation(t, k, spanSetStatus(obj[hs[k].obj], st, "msg"))

RecordError(t, k) ==
    \E err \in {"nil", "boom"} : Mutation(t, k, spanRecordError(obj[hs[k].obj], err))

Mutator(t, k) ==
    \/ SetAttribute(t, k)
    \/ SetAttributes(t, k)
    \/ AddEvent(t, k)
    \/ SetStatus(t, k)
    \/ RecordError(t, k)

\* ---------------------------------------------------------------- Span.End
\* An End() call on handle k returns.
EndReturns(t, k) ==
    /\ endRet' = [endRet EXCEPT ![k] = TRUE]
    /\ endRetPre' = [endRetPre EXCEPT ![k] = @ \/ once = "idle"]
    /\ owner' = [owner EXCEPT ![k] = ""]
    /\ pc' = [pc EXCEPT ![t] = "idle"]
    /\ cur' = [cur EXCEPT ![t] = NoCall]

\* Variant of skipsExport for comparison: the sampled flag is not looked at.
skipsExportUntraced(s) == ~s.tracer

\* End's test after the end time is stamped: if !s.sampled || s.tracer == nil.
skipsExport(s) == ~s.sampled \/ ~s.tracer

\* The compare-and-swap on the ended flag: TRUE when this call wins it.
CompareAndSwap(s) == ~s.ended

\* End up to the hand-over to exportSpan: the no-op check, the compare-and-swap,
\* the end time, the sampled check, and exportSpan's test of asyncCh and closed;
\* run by thread t from wherever it calls End.
EndFrom(t, k) ==
    /\ k \in 1..nspans
    /\ LET o == hs[k].obj
           s == obj[o]
           s2 == [s EXCEPT !.ended = TRUE, !.endTime = 1]
       IN IF s.noop \/ ~CompareAndSwap(s)
          THEN /\ EndReturns(t, k)
               /\ UNCHANGED obj
          ELSE /\ obj' = [obj EXCEPT ![o] = s2]
               /\ IF skipsExport(s2)
                  THEN EndReturns(t, k)
                  ELSE /\ pc' = [pc EXCEPT ![t] = IF async /\ ~closed THEN "send" ELSE "export"]
                       /\ cur' = [cur EXCEPT ![t] = [k |-> k, o |-> o]]
                       /\ UNCHANGED << endRet, endRetPre, owner >>
    /\ UNCHANGED << async, closed, once, chClosed, queue, worker, pool, nalloc, loc,
                    nspans, nmut, hs, last, expLog, expCount, relCount,
                    closeRet, panicked >>
    /\ UNCHANGED sampVars

\* An End() call by thread t on handle k.
End(t, k) ==
    /\ Idle(t)
    /\ EndFrom(t, k)
    /\ UNCHANGED extVars

\* The pointer a closure made by EndFunc holds, as the closure finds it when
\* it is called: nil, a pointer to a nil error, a pointer to an error.
ErrPtrs == {"nilPtr", "nilErr", "boom"}

\* The closure EndFunc returns, first statement: if errPtr != nil &&
\* *errPtr != nil { s.RecordError(*errPtr) }.
EndFuncRecord(t, k, errPtr) ==
    /\ Idle(t)
    /\ k \in 1..nspans
    /\ LET o == hs[k].obj
       IN /\ obj' = [obj EXCEPT ![o] = IF errPtr \in {"nilPtr", "nilErr"} THEN @
                                        ELSE spanRecordError(@, errPtr)]
          /\ lib' = [lib EXCEPT !.endFnLog[k] = [called |-> TRUE, errPtr |-> errPtr,
                                                 before |-> obj[o]],
                                 !.endFn[t] = [k |-> k, errPtr |-> errPtr]]
    /\ pc' = [pc EXCEPT ![t] = "endFunc"]
    /\ UNCHANGED << async, closed, once, chClosed, queue, worker, pool, nalloc, cur, loc,
                    nspans, nmut, hs, last, owner, endRet, endRetPre, expLog,
                    expCount, relCount, closeRet, panicked >>
    /\ UNCHANGED sampVars

\* The closure EndFunc returns, second statement: s.End().
EndFuncEnd(t) ==
    /\ pc[t] = "endFunc"
    /\ EndFrom(t, endFn[t].k)
    /\ lib' = [lib EXCEPT !.endFn[t] = NoClosure]

\* ---------------------------------------------------------------- export pipeline
\* Exporter.Export(span): the exporter reads the span as it is now.
Export(o, by, call) ==
    /\ expLog' = expLog \cup {[id |-> obj[o].spanID, o |-> o, by |-> by, call |-> call,
                               span |-> obj[o]]}
    /\ expCount' = [expCount EXCEPT ![obj[o].spanID] = @ + 1]

\* releaseSpan: reset, then back to the pool.
releaseSpan(o) ==
    /\ relCount' = [relCount EXCEPT ![obj[o].spanID] = @ + 1]
    /\ obj' = [obj EXCEPT ![o] = reset(@)]
    /\ pool' = [pool EXCEPT ![o] = @ + 1]

\* Variant of exportSpanSend for comparison: a full queue drops the span (End returns).
exportSpanSendDrops(t) ==
    /\ pc[t] = "send"
    /\ IF chClosed
       THEN /\ pc' = [pc EXCEPT ![t] = "panicked"]
            /\ panicked' = TRUE
            /\ UNCHANGED << queue, endRet, endRetPre, owner, cur >>
       ELSE /\ queue' = IF Len(queue) < QueueCap
                        THEN Append(queue, [o |-> cur[t].o, call |-> cur[t].k])
                        ELSE queue
            /\ EndReturns(t, cur[t].k)
            /\ UNCHANGED << panicked >>
    /\ UNCHANGED << async, closed, once, chClosed, worker, pool, nalloc, obj, loc,
                    nspans, nmut, hs, last, expLog, expCount, relCount, closeRet >>
    /\ UNCHANGED << sampVars, extVars >>

\* Variant of exportSpanSend for comparison: a plain send, which waits for room.
exportSpanSendBlocks(t) ==
    /\ pc[t] = "send"
    /\ chClosed \/ Len(queue) < QueueCap
    /\ IF chClosed
       THEN /\ pc' = [pc EXCEPT ![t] = "panicked"]
            /\ panicked' = TRUE
            /\ UNCHANGED << queue, endRet, endRetPre, owner, cur >>
       ELSE /\ queue' = Append(queue, [o |-> cur[t].o, call |-> cur[t].k])
            /\ EndReturns(t, cur[t].k)
            /\ UNCHANGED << panicked >>
    /\ UNCHANGED << async, closed, once, chClosed, worker, pool, nalloc, obj, loc,
                    nspans, nmut, hs, last, expLog, expCount, relCount, closeRet >>
    /\ UNCHANGED << sampVars, extVars >>

\* exportSpan's select: a send on a closed channel panics; a send on a channel
\* with room enqueues and End returns; a full channel takes the default branch.
exportSpanSend(t) ==
    /\ pc[t] = "send"
    /\ IF chClosed
       THEN /\ pc' = [pc EXCEPT ![t] = "panicked"]
            /\ panicked' = TRUE
            /\ UNCHANGED << queue, endRet, endRetPre, owner, cur >>
       ELSE IF Len(queue) < QueueCap
       THEN /\ queue' = Append(queue, [o |-> cur[t].o, call |-> cur[t].k])
            /\ EndReturns(t, cur[t].k)
            /\ UNCHANGED << panicked >>
       ELSE /\ pc' = [pc EXCEPT ![t] = "export"]
            /\ UNCHANGED << queue, endRet, endRetPre, owner, cur, panicked >>
    /\ UNCHANGED << async, closed, once, chClosed, worker, pool, nalloc, obj, loc,
                    nspans, nmut, hs, last, expLog, expCount, relCount, closeRet >>
    /\ UNCHANGED << sampVars, extVars >>

\* exportSpan's synchronous path: the exporter call on the caller's thread ...
exportSpanExport(t) ==
    /\ pc[t] = "export"
    /\ Export(cur[t].o, "caller", cur[t].k)
    /\ pc' = [pc EXCEPT ![t] = "release"]
    /\ UNCHANGED << async, closed, once, chClosed, queue, worker, pool, nalloc, obj, cur,
                    loc, nspans, nmut, hs, last, owner, endRet, endRetPre,
                    relCount, closeRet, panicked >>
    /\ UNCHANGED << sampVars, extVars >>

\* ... then the release, and End returns.
exportSpanRelease(t) ==
    /\ pc[t] = "release"
    /\ releaseSpan(cur[t].o)
    /\ EndReturns(t, cur[t].k)
    /\ UNCHANGED << async, closed, once, chClosed, queue, worker, nalloc, loc,
                    nspans, nmut, hs, last, expLog, expCount, closeRet,
                    panicked >>
    /\ UNCHANGED << sampVars, extVars >>

\* Variant of asyncWorkerRecv for comparison: the worker exits as soon as the
\* queue is closed, whatever it still holds.
asyncWorkerRecvStopsOnClose ==
    /\ worker.pc = "recv"
    /\ IF chClosed
       THEN /\ worker' = [worker EXCEPT !.pc = "done"]
            /\ queue' = << >>
       ELSE /\ queue # << >>
            /\ worker' = [pc |-> "export", o |-> Head(queue).o, call |-> Head(queue).call]
            /\ queue' = Tail(queue)
    /\ UNCHANGED << async, closed, once, chClosed, pool, nalloc, obj, pc, cur, loc,
                    nspans, nmut >>
    /\ UNCHANGED histVars
    /\ UNCHANGED << sampVars, extVars >>

\* asyncWorker: for span := range t.asyncCh { Export; releaseSpan }; wg.Done.
asyncWorkerRecv ==
    /\ worker.pc = "recv"
    /\ IF queue # << >>
       THEN /\ worker' = [pc |-> "export", o |-> Head(queue).o, call |-> Head(queue).call]
            /\ queue' = Tail(queue)
       ELSE /\ chClosed
            /\ worker' = [worker EXCEPT !.pc = "done"]
            /\ UNCHANGED queue
    /\ UNCHANGED << async, closed, once, chClosed, pool, nalloc, obj, pc, cur, loc,
                    nspans, nmut >>
    /\ UNCHANGED histVars
    /\ UNCHANGED << sampVars, extVars >>

asyncWorkerExport ==
    /\ worker.pc = "export"
    /\ Export(worker.o, "worker", worker.call)
    /\ worker' = [worker EXCEPT !.pc = "release"]
    /\ UNCHANGED << async, closed, once, chClosed, queue, pool, nalloc, obj, pc, cur, loc,
                    nspans, nmut, hs, last, owner, endRet, endRetPre,
                    relCount, closeRet, panicked >>
    /\ UNCHANGED << sampVars, extVars >>

asyncWorkerRelease ==
    /\ worker.pc = "release"
    /\ releaseSpan(worker.o)
    /\ worker' = [pc |-> "recv", o |-> 0, call |-> 0]
    /\ UNCHANGED << async, closed, once, chClosed, queue, nalloc, pc, cur, loc,
                    nspans, nmut, hs, last, owner, endRet, endRetPre,
                    expLog, expCount, closeRet, panicked >>
    /\ UNCHANGED << sampVars, extVars >>

\* ---------------------------------------------------------------- Tracer.Close
\* Variant of Close for comparison: a call that finds the once running returns at once.
CloseNoOnceWait(t) ==
    /\ Idle(t)
    /\ IF once = "idle"
       THEN /\ once' = "running"
            /\ closed' = TRUE
            /\ pc' = [pc EXCEPT ![t] = "closeCh"]
            /\ UNCHANGED closeRet
       ELSE /\ closeRet' = TRUE
            /\ UNCHANGED << once, closed, pc >>
    /\ UNCHANGED << async, chClosed, queue, worker, pool, nalloc, obj, cur, loc, nspans,
                    nmut, hs, last, owner, endRet, endRetPre, expLog,
                    expCount, relCount, panicked >>
    /\ UNCHANGED << sampVars, extVars >>

\* closeOnce.Do: the first caller runs the function (closed.Store(true) first),
\* a caller that finds it running waits for it, a later caller returns at once.
Close(t) ==
    /\ Idle(t)
    /\ IF once = "idle"
       THEN /\ once' = "running"
            /\ closed' = TRUE
            /\ pc' = [pc EXCEPT ![t] = "closeCh"]
            /\ UNCHANGED closeRet
       ELSE IF once = "running"
       THEN /\ pc' = [pc EXCEPT ![t] = "closeWait"]
            /\ UNCHANGED << once, closed, closeRet >>
       ELSE /\ closeRet' = TRUE
            /\ UNCHANGED << once, closed, pc >>
    /\ UNCHANGED << async, chClosed, queue, worker, pool, nalloc, obj, cur, loc, nspans,
                    nmut, hs, last, owner, endRet, endRetPre, expLog,
                    expCount, relCount, panicked >>
    /\ UNCHANGED << sampVars, extVars >>

\* if t.asyncCh != nil { close(t.asyncCh); ... }
CloseChan(t) ==
    /\ pc[t] = "closeCh"
    /\ IF async
       THEN /\ chClosed' = TRUE
            /\ pc' = [pc EXCEPT ![t] = "closeWg"]
            /\ UNCHANGED << once, closeRet >>
       ELSE /\ once' = "done"
            /\ closeRet' = TRUE
            /\ pc' = [pc EXCEPT ![t] = "idle"]
            /\ UNCHANGED chClosed
    /\ UNCHANGED << async, closed, queue, worker, pool, nalloc, obj, cur, loc, nspans,
                    nmut, hs, last, owner, endRet, endRetPre, expLog,
                    expCount, relCount, panicked >>
    /\ UNCHANGED << sampVars, extVars >>

\* Variant of CloseWait for comparison: Close does not wait for the worker.
CloseWaitNoJoin(t) ==
    /\ pc[t] = "closeWg"
    /\ once' = "done"
    /\ closeRet' = TRUE
    /\ pc' = [pc EXCEPT ![t] = "idle"]
    /\ UNCHANGED << async, closed, chClosed, queue, worker, pool, nalloc, obj, cur, loc,
                    nspans, nmut, hs, last, owner, endRet, endRetPre,
                    expLog, expCount, relCount, panicked >>
    /\ UNCHANGED << sampVars, extVars >>

\* t.asyncWg.Wait(): returns once the worker has called Done.
CloseWait(t) ==
    /\ pc[t] = "closeWg"
    /\ worker.pc = "done"
    /\ once' = "done"
    /\ closeRet' = TRUE
    /\ pc' = [pc EXCEPT ![t] = "idle"]
    /\ UNCHANGED << async, closed, chClosed, queue, worker, pool, nalloc, obj, cur, loc,
                    nspans, nmut, hs, last, owner, endRet, endRetPre,
                    expLog, expCount, relCount, panicked >>
    /\ UNCHANGED << sampVars, extVars >>

\* A Close() call that found the once running returns when it is done.
CloseOnceWait(t) ==
    /\ pc[t] = "closeWait"
    /\ once = "done"
    /\ closeRet' = TRUE
    /\ pc' = [pc EXCEPT ![t] = "idle"]
    /\ UNCHANGED << async, closed, once, chClosed, queue, worker, pool, nalloc, obj, cur,
                    loc, nspans, nmut, hs, last, owner, endRet, endRetPre,
                    expLog, expCount, relCount, panicked >>
    /\ UNCHANGED << sampVars, extVars >>

\* ---------------------------------------------------------------- specifications
Worker ==
    \/ asyncWorkerRecv
    \/ asyncWorkerExport
    \/ asyncWorkerRelease

\* The steps of a call once it is under way.
Steps(t) ==
    \/ \E o \in Objs : getSpan(t, o)
    \/ exportSpanSend(t)
    \/ exportSpanExport(t)
    \/ exportSpanRelease(t)
    \/ CloseChan(t)
    \/ CloseWait(t)

\* With several callers, a Close() call may also wait for another one.
Continue(t) ==
    \/ Steps(t)
    \/ CloseOnceWait(t)

\* The export pipeline under concurrent callers that keep to the ownership
\* rule (a span is ended by the thread that started it, once).  Spans are
\* started from an empty context, without options; the sampler may decide
\* either way.
Next ==
    \/ \E t \in Threads :
          \/ StartCheck(t, 0, "none")
          \/ \E dec \in BOOLEAN : StartFill(t, << >>, dec)
          \/ Close(t)
          \/ Continue(t)
    \/ \E t \in Threads, k \in Handles : owner[k] = t /\ End(t, k)
    \/ Worker

Spec == Init /\ [][Next]_vars

Caller == CHOOSE t \in Threads : TRUE

\* Parent resolution under one caller that keeps to the ownership rule: spans
\* are started from every kind of context (any span handed out before, ended
\* or not, and any TraceContext).  Any thread may call Close().
NextCtx ==
    \/ \E par \in 0..nspans, tc \in TCKinds : StartCheck(Caller, par, tc)
    \/ \E dec \in BOOLEAN : StartFill(Caller, << >>, dec)
    \/ \E t \in Threads : Close(t) \/ Continue(t)
    \/ \E k \in Handles : owner[k] = Caller /\ End(Caller, k)
    \/ Worker

SpecCtx == Init /\ [][NextCtx]_vars

\* The span lifecycle under one caller that keeps to the ownership rule (a
\* span is not used after its End() has returned): spans are started with and
\* without options, mutated, ended and their objects reused.  The sampler is
\* AlwaysSample (only sampled spans go back to the pool), and the caller is
\* the one that calls Close().
NextLife ==
    \/ StartCheck(Caller, 0, "none")
    \/ \E opts \in {<< >>, << [fn |-> "WithAttributes", attrs |-> << "opt" >>] >>} :
          StartFill(Caller, opts, TRUE)
    \/ Close(Caller)
    \/ Steps(Caller)
    \/ \E k \in Handles : owner[k] = Caller /\ (Mutator(Caller, k) \/ End(Caller, k))
    \/ Worker

SpecLife == Init /\ [][NextLife]_vars

\* Concurrent callers that share handles: any thread may call End() and the
\* mutation methods on any span that Start has handed out, at any time
\* (concurrent, duplicate and late calls).
NextShared ==
    \/ \E t \in Threads :
          \/ StartCheck(t, 0, "none")
          \/ \E dec \in BOOLEAN : StartFill(t, << >>, dec)
          \/ Close(t)
          \/ Continue(t)
    \/ \E t \in Threads, k \in Handles : Mutator(t, k) \/ End(t, k)
    \/ Worker

SpecShared == Init /\ [][NextShared]_vars

\* A tracer with Options.Sampler = ParentBasedSample(root), under one caller
\* that keeps to the ownership rule: spans are started from every kind of
\* context (any span handed out before, any TraceContext, sampled or not); the
\* root sampler may decide either way.
NextParentBased ==
    \/ \E par \in 0..nspans, tc \in TCKindsFlagged : StartCheck(Caller, par, tc)
    \/ \E root \in BOOLEAN :
          StartFill(Caller, << >>,
                    ParentBasedShouldSample(SamplingParamsOf(Caller), root).result)
    \/ Close(Caller)
    \/ Steps(Caller)
    \/ \E k \in Handles : owner[k] = Caller /\ End(Caller, k)
    \/ Worker

SpecParentBased == Init /\ [][NextParentBased]_vars

\* ---------------------------------------------------------------- sampler calls
\* The SamplingParams a sampler is called with.
ParamTraceIDs == {1, 2}
ParamParentIDs == {0, 1, 2}
ParamNames == {"a", "b"}
SamplingParamsSet ==
    [TraceID : ParamTraceIDs, Name : ParamNames, ParentID : ParamParentIDs]

\* A ShouldSample call by thread t on a ParentBasedSampler whose root sampler
\* returns root when asked.
ParentBasedCall(t, params, root) ==
    /\ Idle(t)
    /\ Cardinality(sampLog) < MaxSamplerCalls
    /\ LET c == ParentBasedShouldSample(params, root)
       IN sampLog' = sampLog \cup {[sampler |-> "parentBased", params |-> params,
                                    root |-> root, result |-> c.result,
                                    rootCalls |-> c.rootCalls]}
    /\ UNCHANGED << sampCalls, ratioSampler, sampLocal >>
    /\ UNCHANGED << tracerVars, extVars >>

\* ParentBasedSample(root).ShouldSample called from any thread with any
\* parameters, for root samplers that answer either way.
NextParentBasedCalls ==
    \E t \in Threads, params \in SamplingParamsSet, root \in BOOLEAN :
        ParentBasedCall(t, params, root)

SpecParentBasedCalls == Init /\ [][NextParentBasedCalls]_vars

\* The ratios RatioSample is called with, in thousandths (125 is 0.125):
\* values whose hundredfold float64 computes exactly, and values outside [0, 1].
Ratios == {-500, 0, 125, 500, 1000, 1500}

\* Variant of ClampRatio for comparison: a ratio above 1 counts as no ratio.
ClampRatioRejectsHigh(ratio) == IF ratio < 0 \/ ratio > 1000 THEN 0 ELSE ratio

\* The clamping both ratio constructors start with.
ClampRatio(ratio) == IF ratio < 0 THEN 0 ELSE IF ratio > 1000 THEN 1000 ELSE ratio

\* RatioSample(ratio): threshold is uint32(ratio * 100), which drops the
\* fraction; the counter starts at zero.
RatioSample(ratio) ==
    [made |-> TRUE, ratio |-> ClampRatio(ratio),
     threshold |-> (ClampRatio(ratio) * 100) \div 1000, counter |-> 0]

\* The construction of the RatioSampler instance; the ratio the constructor
\* was given is logged.
NewRatioSampler(ratio) ==
    /\ ~ratioSampler.made
    /\ ratioSampler' = RatioSample(ratio)
    /\ sampLog' = sampLog \cup {[sampler |-> "RatioSample", ratio |-> ratio]}
    /\ UNCHANGED << sampCalls, sampLocal >>
    /\ UNCHANGED << tracerVars, extVars >>

\* RatioSampler.ShouldSample, first step: count := s.counter.Add(1).
RatioAdd(t) ==
    /\ ratioSampler.made
    /\ Idle(t) /\ sampLocal[t] = 0
    /\ ratioSampler.counter < MaxRatioCalls
    /\ ratioSampler' = [ratioSampler EXCEPT !.counter = @ + 1]
    /\ sampLocal' = [sampLocal EXCEPT ![t] = ratioSampler.counter + 1]
    /\ UNCHANGED << sampCalls, sampLog >>
    /\ UNCHANGED << tracerVars, extVars >>

\* RatioSampler.ShouldSample, second step: return uint32(count%100) < s.threshold.
RatioReturn(t) ==
    /\ sampLocal[t] # 0
    /\ sampLog' = sampLog \cup {[sampler |-> "ratio", n |-> sampLocal[t],
                                  result |-> (sampLocal[t] % 100) < ratioSampler.threshold]}
    /\ sampLocal' = [sampLocal EXCEPT ![t] = 0]
    /\ UNCHANGED << sampCalls, ratioSampler >>
    /\ UNCHANGED << tracerVars, extVars >>

\* One RatioSampler instance, made with any of the ratios and called from
\* concurrent threads.
NextRatio ==
    \/ \E ratio \in Ratios : NewRatioSampler(ratio)
    \/ \E t \in Threads : RatioAdd(t) \/ RatioReturn(t)

SpecRatio == Init /\ [][NextRatio]_vars

\* 32-bit unsigned values are pairs of 16-bit halves.
Half == 2^16

\* The exclusive or of two values of n bits.
RECURSIVE XorBits(_, _, _)
XorBits(a, b, n) ==
    IF n = 0 THEN 0
    ELSE (((a % 2) + (b % 2)) % 2) + 2 * XorBits(a \div 2, b \div 2, n - 1)

\* hash/fnv, 32-bit FNV-1a: the offset basis 0x811C9DC5, and for every byte
\* hash ^= byte; hash *= 0x01000193 (modulo 2^32; the prime is 256 * 2^16 + 403).
FnvOffset32 == [hi |-> 33052, lo |-> 40389]

FnvStep(h, b) ==
    LET lo1 == (h.lo - (h.lo % 256)) + XorBits(h.lo % 256, b, 8)
        low == lo1 * 403
    IN [hi |-> ((h.hi * 403) + (lo1 * 256) + (low \div Half)) % Half, lo |-> low % Half]

RECURSIVE FnvWrite(_, _)
FnvWrite(h, bytes) ==
    IF bytes = << >> THEN h ELSE FnvWrite(FnvStep(h, Head(bytes)), Tail(bytes))

\* Trace IDs whose FNV-1a hash is 0xFFFFFFFF, 0x7FFFFFFF and 0: their last
\* five bytes, the bytes before are zero.
EdgeTraceIDs == {3, 4, 5}

EdgeBytes(id) ==
    IF id = 3 THEN << 2, 104, 236, 177, 203 >>
    ELSE IF id = 4 THEN << 1, 108, 85, 56, 74 >>
    ELSE << 0, 82, 179, 45, 29 >>

\* The 16 bytes of the trace ID that is the number id (0: all-zero).
TraceIDBytes(id) ==
    IF id \in EdgeTraceIDs THEN [i \in 1..16 |-> IF i > 11 THEN EdgeBytes(id)[i - 11] ELSE 0]
    ELSE [i \in 1..16 |-> IF i = 16 THEN id ELSE 0]

\* a < b for 32-bit values.
Less32(a, b) == a.hi < b.hi \/ (a.hi = b.hi /\ a.lo < b.lo)

\* TraceIDRatioSample(ratio): threshold is uint32(ratio * 0xFFFFFFFF), the
\* fraction dropped; ratio is in thousandths.
TraceIDRatioSample(ratio) ==
    LET a == ClampRatio(ratio) * 65535
        w == (((a % 1000) * Half) + a) \div 1000
    IN [threshold |-> [hi |-> (a \div 1000) + (w \div Half), lo |-> w % Half]]

\* h.Write(params.TraceID[:]); h.Sum32() for the trace IDs of the parameters:
\* the hash is a function of the trace ID's bytes alone.
TraceIDHash ==
    [id \in ParamTraceIDs \cup EdgeTraceIDs |-> FnvWrite(FnvOffset32, TraceIDBytes(id))]

\* Variant of TraceIDRatioShouldSample for comparison: a valid parent ID is accepted.
TraceIDRatioAcceptsParent(s, params) ==
    IsValid(params.ParentID) \/ Less32(TraceIDHash[params.TraceID], s.threshold)

\* TraceIDRatioSampler.ShouldSample: a new hash of the trace ID's bytes,
\* compared with the threshold.
TraceIDRatioShouldSample(s, params) ==
    Less32(TraceIDHash[params.TraceID], s.threshold)

\* A ShouldSample call by thread t on an instance made by TraceIDRatioSample(ratio).
TraceIDRatioCall(t, ratio, params) ==
    /\ Idle(t)
    /\ Cardinality(sampLog) < MaxSamplerCalls
    /\ sampLog' = sampLog \cup
          {[sampler |-> "traceIDRatio", ratio |-> ratio, params |-> params,
            result |-> TraceIDRatioShouldSample(TraceIDRatioSample(ratio), params)]}
    /\ UNCHANGED << sampCalls, ratioSampler, sampLocal >>
    /\ UNCHANGED << tracerVars, extVars >>

\* TraceIDRatioSampler instances made with any of the ratios, called from any
\* thread with any parameters.
NextTraceIDRatio ==
    \E t \in Threads, ratio \in Ratios, params \in SamplingParamsSet :
        TraceIDRatioCall(t, ratio, params)

SpecTraceIDRatio == Init /\ [][NextTraceIDRatio]_vars

\* Both ratio constructors side by side: one RatioSampler instance made with
\* any of the ratios and called MaxClampCalls times, and TraceIDRatioSampler
\* instances made with any of the ratios and called with any trace ID.
NextClamp ==
    \/ \E ratio \in Ratios : NewRatioSampler(ratio)
    \/ ratioSampler.counter < MaxClampCalls /\ RatioAdd(Caller)
    \/ RatioReturn(Caller)
    \/ \E ratio \in Ratios, id \in ParamTraceIDs :
          TraceIDRatioCall(Caller, ratio, [TraceID |-> id, Name |-> "a", ParentID |-> 0])

SpecClamp == Init /\ [][NextClamp]_vars

\* The ratios in [0, 1] whose product with 2^32 is a whole number, in
\* thousandths.
EdgeRatios == {0, 250, 500, 750, 1000}

\* TraceIDRatioSampler instances made with these ratios, called with trace IDs
\* whose hashes lie at the ends and in the middle of the 32-bit range.
NextTraceIDEdge ==
    \E ratio \in EdgeRatios, id \in ParamTraceIDs \cup EdgeTraceIDs :
        TraceIDRatioCall(Caller, ratio, [TraceID |-> id, Name |-> "a", ParentID |-> 0])

SpecTraceIDEdge == Init /\ [][NextTraceIDEdge]_vars

\* The steps of an End() call once it has reached exportSpan.
EndSteps(t) ==
    \/ exportSpanSend(t)
    \/ exportSpanExport(t)
    \/ exportSpanRelease(t)

\* The callers and the worker of Spec, where a goroutine that is inside End()
\* keeps running and Exporter.Export returns, while nothing is assumed of
\* the worker: it may stop making progress at any point.
SpecStalled == Init /\ [][Next]_vars /\ \A t \in Threads : WF_vars(EndSteps(t))

\* The callers and the worker of Spec under a fair scheduler: every goroutine
\* that can take a step eventually takes one, and Exporter.Export returns.
SpecFair ==
    /\ Init /\ [][Next]_vars
    /\ WF_vars(Worker)
    /\ \A t \in Threads : WF_vars(Continue(t))

\* The span lifecycle under one caller that ends every span through the
\* closure EndFunc returned for it, called once, with any error pointer;
\* before that the caller may add an event or set a status.  The sampler may
\* decide either way; the tracer stays open.
NextEndFunc ==
    \/ StartCheck(Caller, 0, "none")
    \/ \E dec \in BOOLEAN : StartFill(Caller, << >>, dec)
    \/ \E o \in Objs : getSpan(Caller, o)
    \/ EndSteps(Caller)
    \/ \E k \in Handles :
          /\ owner[k] = Caller
          /\ \/ AddEvent(Caller, k)
             \/ SetStatus(Caller, k)
             \/ \E errPtr \in ErrPtrs : EndFuncRecord(Caller, k, errPtr)
    \/ EndFuncEnd(Caller)
    \/ Worker

SpecEndFunc == InitEndFunc /\ [][NextEndFunc]_vars

\* The option lists Start is called with: none, WithAttributes, WithStartTime,
\* and both.
OptionLists ==
    {<< >>,
     << [fn |-> "WithAttributes", attrs |-> << "opt" >>] >>,
     << [fn |-> "WithStartTime", time |-> 7] >>,
     << [fn |-> "WithStartTime", time |-> 7],
        [fn |-> "WithAttributes", attrs |-> << "opt", "more" >>] >>}

\* Start with options under one caller that keeps to the ownership rule:
\* spans are started from every kind of context with every option list, ended
\* and their objects reused; the tracer stays open.  The sampler is
\* ParentBasedSample(NeverSample()), whose answer depends on its parameters.
NextOptions ==
    \/ \E par \in 0..nspans, tc \in TCKinds : StartCheck(Caller, par, tc)
    \/ \E o \in Objs : getSpan(Caller, o)
    \/ \E opts \in OptionLists :
          StartFill(Caller, opts,
                    ParentBasedShouldSample(
                        SamplingParamsFrom(SpanAtSample(Caller, opts), "op"), FALSE).result)
    \/ \E k \in Handles : owner[k] = Caller /\ End(Caller, k)
    \/ EndSteps(Caller)
    \/ Worker

SpecOptions == InitOptions /\ [][NextOptions]_vars

\* ---------------------------------------------------------------- header functions
\* Strings are sequences of one-character strings; identifiers are the
\* sequences of their bytes.
HexDigits == << "0", "1", "2", "3", "4", "5", "6", "7", "8", "9",
                "a", "b", "c", "d", "e", "f" >>
UpperHex == << "0", "1", "2", "3", "4", "5", "6", "7", "8", "9",
               "A", "B", "C", "D", "E", "F" >>

Rep(c, n) == [i \in 1..n |-> c]

\* The class [0-9a-f] of the regular expression.
LowerHexClass == {HexDigits[i] : i \in 1..16}

\* unicode.IsSpace for the characters used here.
IsSpace(c) == c \in {" ", "\t", "\n", "\r"}

\* strings.ToLower: an upper-case letter becomes its lower-case letter (the
\* letters used here are A to G), every other character stays.
LowerChar(c) ==
    IF \E i \in 11..16 : UpperHex[i] = c
    THEN HexDigits[CHOOSE i \in 11..16 : UpperHex[i] = c]
    ELSE IF c = "G" THEN "g" ELSE c

ToLower(s) == [i \in 1..Len(s) |-> LowerChar(s[i])]

\* strings.TrimSpace: the white space at both ends is cut off.
RECURSIVE TrimLeft(_)
TrimLeft(s) == IF s # << >> /\ IsSpace(Head(s)) THEN TrimLeft(Tail(s)) ELSE s

RECURSIVE TrimRight(_)
TrimRight(s) ==
    IF s # << >> /\ IsSpace(s[Len(s)]) THEN TrimRight(SubSeq(s, 1, Len(s) - 1)) ELSE s

TrimSpace(s) == TrimRight(TrimLeft(s))

\* traceparentRegex, ^([0-9a-f]{2})-([0-9a-f]{32})-([0-9a-f]{16})-([0-9a-f]{2})$:
\* its items in order, each a character class repeated n times.
traceparentRegex ==
    << [class |-> LowerHexClass, n |-> 2], [class |-> {"-"}, n |-> 1],
       [class |-> LowerHexClass, n |-> 32], [class |-> {"-"}, n |-> 1],
       [class |-> LowerHexClass, n |-> 16], [class |-> {"-"}, n |-> 1],
       [class |-> LowerHexClass, n |-> 2] >>

\* The match of the items re against the whole of s, from its first character
\* to its last: the piece of s each item matched, or no match.
RECURSIVE MatchItems(_, _)
MatchItems(re, s) ==
    IF re = << >> THEN [ok |-> s = << >>, pieces |-> << >>]
    ELSE LET item == Head(re)
         IN IF /\ Len(s) >= item.n
               /\ \A i \in 1..item.n : s[i] \in item.class
            THEN LET rest == MatchItems(Tail(re), SubSeq(s, item.n + 1, Len(s)))
                 IN [ok |-> rest.ok,
                     pieces |-> << SubSeq(s, 1, item.n) >> \o rest.pieces]
            ELSE [ok |-> FALSE, pieces |-> << >>]

\* FindStringSubmatch: nil, or the whole match followed by the four groups.
FindStringSubmatch(s) ==
    LET m == MatchItems(traceparentRegex, s)
    IN IF m.ok
       THEN [nil |-> FALSE,
             matches |-> << s, m.pieces[1], m.pieces[3], m.pieces[5], m.pieces[7] >>]
       ELSE [nil |-> TRUE, matches |-> << >>]

\* encoding/hex: the value of a hexadecimal digit of either case, -1 for any
\* other character.
FromHexChar(c) ==
    IF \E i \in 1..16 : HexDigits[i] = c THEN (CHOOSE i \in 1..16 : HexDigits[i] = c) - 1
    ELSE IF \E i \in 1..16 : UpperHex[i] = c
         THEN (CHOOSE i \in 1..16 : UpperHex[i] = c) - 1
         ELSE -1

\* hex.DecodeString: an error for a string of odd length or with a character
\* that is no hexadecimal digit, else the bytes.
DecodeString(s) ==
    IF Len(s) % 2 = 1 \/ \E i \in 1..Len(s) : FromHexChar(s[i]) = -1
    THEN [err |-> TRUE, bytes |-> << >>]
    ELSE [err |-> FALSE,
          bytes |-> [i \in 1..(Len(s) \div 2) |->
                        (16 * FromHexChar(s[(2 * i) - 1])) + FromHexChar(s[2 * i])]]

\* hex.EncodeToString: two lower-case digits for every byte.
EncodeToString(bytes) ==
    [i \in 1..(2 * Len(bytes)) |->
        IF i % 2 = 1 THEN HexDigits[(bytes[(i + 1) \div 2] \div 16) + 1]
        ELSE HexDigits[(bytes[i \div 2] % 16) + 1]]

\* The zero value of TraceContext, and the results of the header functions:
\* a nil context with an error, or a context with a nil error.
ZeroBytes(n) == Rep(0, n)

ZeroTraceContext ==
    [TraceID |-> ZeroBytes(16), SpanID |-> ZeroBytes(8), TraceFlags |-> 0,
     TraceState |-> ""]

Failed(err) == [nil |-> TRUE, tc |-> ZeroTraceContext, err |-> err]
Parsed(tc) == [nil |-> FALSE, tc |-> tc, err |-> "nil"]

\* Variant of ParseW3CTraceparent for comparison: the version field is not
\* looked at.
ParseW3CTraceparentAnyVersion(header) ==
    LET h == TrimSpace(ToLower(header))
        m == FindStringSubmatch(h)
    IN IF m.nil THEN Failed("ErrInvalidContext")
       ELSE Parsed([TraceID |-> DecodeString(m.matches[3]).bytes,
                    SpanID |-> DecodeString(m.matches[4]).bytes,
                    TraceFlags |-> DecodeString(m.matches[5]).bytes[1],
                    TraceState |-> ""])

\* ParseW3CTraceparent(header).
ParseW3CTraceparent(header) ==
    LET h == TrimSpace(ToLower(header))
        m == FindStringSubmatch(h)
    IN IF m.nil THEN Failed("ErrInvalidContext")
       ELSE IF m.matches[2] # << "0", "0" >> THEN Failed("ErrInvalidContext")
       ELSE LET traceIDBytes == DecodeString(m.matches[3])
                spanIDBytes == DecodeString(m.matches[4])
                flags == DecodeString(m.matches[5])
            IN IF traceIDBytes.err \/ Len(traceIDBytes.bytes) # 16
               THEN Failed("ErrInvalidTraceID")
               ELSE IF spanIDBytes.err \/ Len(spanIDBytes.bytes) # 8
               THEN Failed("ErrInvalidSpanID")
               ELSE IF flags.err \/ Len(flags.bytes) # 1
               THEN Failed("ErrInvalidContext")
               ELSE Parsed([TraceID |-> traceIDBytes.bytes, SpanID |-> spanIDBytes.bytes,
                            TraceFlags |-> flags.bytes[1], TraceState |-> ""])

\* Variant of FormatFlags for comparison: %x, no leading zero.
FormatFlagsUnpadded(b) ==
    IF b < 16 THEN << HexDigits[b + 1] >> ELSE EncodeToString(<< b >>)

\* fmt's %02x of a byte: two lower-case hexadecimal digits.
FormatFlags(b) == << HexDigits[(b \div 16) + 1], HexDigits[(b % 16) + 1] >>

\* TraceContext.FormatW3CTraceparent.
FormatW3CTraceparent(tc) ==
    << "0", "0", "-" >> \o EncodeToString(tc.TraceID) \o << "-" >>
        \o EncodeToString(tc.SpanID) \o << "-" >> \o FormatFlags(tc.TraceFlags)

\* Variant of ParseHeaders for comparison: the span ID header is required.
ParseHeadersSpanRequired(traceID, spanID) ==
    LET traceIDBytes == DecodeString(traceID)
        spanIDBytes == DecodeString(spanID)
    IN IF traceIDBytes.err \/ Len(traceIDBytes.bytes) # 16
       THEN Failed("ErrInvalidTraceID")
       ELSE IF spanIDBytes.err \/ Len(spanIDBytes.bytes) # 8
            THEN Failed("ErrInvalidSpanID")
            ELSE Parsed([ZeroTraceContext EXCEPT !.TraceID = traceIDBytes.bytes,
                                                 !.SpanID = spanIDBytes.bytes])

\* ParseHeaders(traceID, spanID).
ParseHeaders(traceID, spanID) ==
    LET traceIDBytes == DecodeString(traceID)
        spanIDBytes == DecodeString(spanID)
    IN IF traceIDBytes.err \/ Len(traceIDBytes.bytes) # 16
       THEN Failed("ErrInvalidTraceID")
       ELSE IF spanID # << >>
            THEN IF spanIDBytes.err \/ Len(spanIDBytes.bytes) # 8
                 THEN Failed("ErrInvalidSpanID")
                 ELSE Parsed([ZeroTraceContext EXCEPT !.TraceID = traceIDBytes.bytes,
                                                      !.SpanID = spanIDBytes.bytes])
            ELSE Parsed([ZeroTraceContext EXCEPT !.TraceID = traceIDBytes.bytes])

\* TraceContext.IsSampled of a parsed or constructed context.
FlagsSampled(tc) == tc.TraceFlags % 2 = 1

\* The inputs.  Identifiers: every byte is fill but the last.
IDByteValues == {0, 10, 255}
IDFillValues == {0, 171}
IDsOf(n) ==
    {[i \in 1..n |-> IF i = n THEN b ELSE fill] : b \in IDByteValues, fill \in IDFillValues}
ValidIDsOf(n) == IDsOf(n) \ {ZeroBytes(n)}
FlagBytes == 0..255
TraceStates == {"", "k=v"}

\* The fields a traceparent header is put together from: well-formed ones,
\* upper-case ones, ones of a wrong length and ones with another character.
VersionFields == {<< "0", "0" >>, << "0", "1" >>, << "f", "f" >>, << "F", "F" >>, << "0" >>}
TraceIDFields ==
    {Rep("0", 31) \o << "1" >>, Rep("a", 31) \o << "F" >>, Rep("0", 32),
     Rep("0", 31), Rep("0", 33), Rep("0", 31) \o << "g" >>, Rep("0", 31) \o << " " >>}
SpanIDFields ==
    {Rep("0", 15) \o << "2" >>, Rep("B", 16), Rep("0", 16), Rep("0", 15), Rep("0", 17),
     Rep("0", 15) \o << "G" >>, << >>}
FlagFields == {<< "0", "0" >>, << "0", "1" >>, << "0", "A" >>, << "f", "e" >>, << "1" >>,
               << "0", "g" >>}
Separators == {<< "-" >>, << "_" >>}
LeftMargins == {<< >>, << " " >>}
RightMargins == {<< >>, << "\t", "\n" >>}

Headers ==
    {left \o v \o sep \o t \o << "-" >> \o s \o << "-" >> \o f \o right :
        left \in LeftMargins, right \in RightMargins, sep \in Separators, v \in VersionFields,
        t \in TraceIDFields, s \in SpanIDFields, f \in FlagFields}

\* tc.FormatW3CTraceparent() followed by ParseW3CTraceparent.
FormatThenParse(tc) ==
    lib' = [fn |-> "FormatThenParse", tc |-> tc, header |-> FormatW3CTraceparent(tc),
               out |-> ParseW3CTraceparent(FormatW3CTraceparent(tc))]

\* A ParseW3CTraceparent call.
ParseW3CTraceparentCall(header) ==
    lib' = [fn |-> "ParseW3CTraceparent", header |-> header,
               out |-> ParseW3CTraceparent(header)]

\* A ParseHeaders call.
ParseHeadersCall(traceID, spanID) ==
    lib' = [fn |-> "ParseHeaders", traceID |-> traceID, spanID |-> spanID,
               out |-> ParseHeaders(traceID, spanID)]

\* One call of a header function, with any of the inputs.
NextParse ==
    /\ parsed = NoParse
    /\ \/ \E id \in ValidIDsOf(16), sid \in ValidIDsOf(8), flags \in FlagBytes,
            state \in TraceStates :
            FormatThenParse([TraceID |-> id, SpanID |-> sid, TraceFlags |-> flags,
                             TraceState |-> state])
       \/ \E header \in Headers : ParseW3CTraceparentCall(header)
       \/ \E traceID \in TraceIDFields \cup SpanIDFields, spanID \in SpanIDFields \cup TraceIDFields :
            ParseHeadersCall(traceID, spanID)
    /\ UNCHANGED << tracerVars, sampVars >>

\* No header function has been called yet.
InitParse == InitTracer /\ lib = NoParse

SpecParse == InitParse /\ [][NextParse]_vars

\* ---------------------------------------------------------------- InMemoryExporter
\* A slice is an array of the heap (0: none), a length and a capacity; the
\* cells of an array hold *spanData pointers (0: nil), a pointer being the
\* number of the Export call that made the spanData.
SliceContents(heap, slice) ==
    IF slice.len = 0 THEN << >> ELSE SubSeq(heap[slice.arr], 1, slice.len)

\* append(slice, x): in place when the capacity allows, else into a new array
\* of grown capacity that the elements are copied to.
SliceAppend(heap, slice, x) ==
    IF slice.len < slice.cap
    THEN [heap |-> [heap EXCEPT ![slice.arr][slice.len + 1] = x],
          slice |-> [slice EXCEPT !.len = @ + 1]]
    ELSE LET newcap == IF slice.cap = 0 THEN 1 ELSE 2 * slice.cap
         IN [heap |-> Append(heap, SliceContents(heap, slice) \o << x >>
                                       \o Rep(0, newcap - (slice.len + 1))),
             slice |-> [arr |-> Len(heap) + 1, len |-> slice.len + 1, cap |-> newcap]]

\* Variant of SpansResult for comparison: the slice itself is returned.
SpansResultAliased(heap, slice) ==
    [heap |-> heap, result |-> [arr |-> slice.arr, len |-> slice.len]]

\* Spans(): result := make([]*spanData, len(e.spans)); copy(result, e.spans).
SpansResult(heap, slice) ==
    [heap |-> Append(heap, SliceContents(heap, slice)),
     result |-> [arr |-> Len(heap) + 1, len |-> slice.len]]

\* NewInMemoryExporter(): no spans; no call under way or made.
NewInMemoryExporter ==
    [spans |-> [arr |-> 0, len |-> 0, cap |-> 0],
     heap |-> << >>,
     pc |-> [t \in Threads |-> [pc |-> "idle", data |-> 0]],
     n |-> 0,
     order |-> << >>,
     done |-> [n |-> 0, raced |-> FALSE],
     snaps |-> {},
     len |-> [called |-> FALSE, result |-> 0, done |-> 0, underway |-> 0, raced |-> FALSE]]

\* Everything but the InMemoryExporter stays as it is.
MemOnly == UNCHANGED << tracerVars, sampVars >>

\* The threads inside an Export call.
MemUnderWay == {t \in Threads : mem.pc[t].pc # "idle"}

\* Export, up to the lock: the spanData is made from the span.
MemExportData(t) ==
    /\ mem.pc[t].pc = "idle"
    /\ mem.n < MaxExports
    /\ lib' = [mem EXCEPT !.n = @ + 1,
                          !.pc[t] = [pc |-> "append", data |-> mem.n + 1]]
    /\ MemOnly

\* Export, under the lock: e.spans = append(e.spans, data).
MemExportAppend(t) ==
    /\ mem.pc[t].pc = "append"
    /\ LET a == SliceAppend(mem.heap, mem.spans, mem.pc[t].data)
       IN lib' = [mem EXCEPT !.heap = a.heap,
                             !.spans = a.slice,
                             !.order = Append(@, mem.pc[t].data),
                             !.pc[t].pc = "return"]
    /\ MemOnly

\* Export returns.
MemExportReturn(t) ==
    /\ mem.pc[t].pc = "return"
    /\ lib' = [mem EXCEPT !.pc[t] = [pc |-> "idle", data |-> 0],
                          !.done.n = @ + 1]
    /\ MemOnly

\* Spans(), under the lock.
MemSpans(t) ==
    /\ mem.pc[t].pc = "idle"
    /\ Cardinality(mem.snaps) < MaxSnapshots
    /\ LET r == SpansResult(mem.heap, mem.spans)
       IN lib' = [mem EXCEPT !.heap = r.heap,
                             !.snaps = @ \cup {[arr |-> r.result.arr, len |-> r.result.len,
                                                order |-> mem.order]}]
    /\ MemOnly

\* Len(), under the lock.
MemLen(t) ==
    /\ mem.pc[t].pc = "idle"
    /\ lib' = [mem EXCEPT !.len = [called |-> TRUE, result |-> mem.spans.len,
                                   done |-> mem.done.n,
                                   underway |-> Cardinality(MemUnderWay),
                                   raced |-> mem.done.raced]]
    /\ MemOnly

\* Clear(), under the lock: e.spans = e.spans[:0].
MemClear(t) ==
    /\ mem.pc[t].pc = "idle"
    /\ lib' = [mem EXCEPT !.spans.len = 0,
                          !.order = << >>,
                          !.done = [n |-> 0, raced |-> MemUnderWay # {}]]
    /\ MemOnly

\* One InMemoryExporter used from concurrent threads.
NextMem ==
    \E t \in Threads :
        \/ MemExportData(t)
        \/ MemExportAppend(t)
        \/ MemExportReturn(t)
        \/ MemSpans(t)
        \/ MemLen(t)
        \/ MemClear(t)

\* The state once NewInMemoryExporter() has returned.
InitMem == InitTracer /\ lib = NewInMemoryExporter

SpecMem == InitMem /\ [][NextMem]_vars

\* ---------------------------------------------------------------- logs.Logger (async)
\* New(&Options{AsyncBufferSize: LogBufferSize}): the Logger with its empty
\* channel and its worker started; no derived logger, no call made yet.
NewAsyncLogger ==
    [logger |-> [l \in Loggers |-> IF l = "root" THEN NewLogger ELSE NoLogger],
     ch |-> [buf |-> << >>, closed |-> FALSE],
     worker |-> [pc |-> "recv", e |-> 0],
     pc |-> [t \in Threads |-> NoLogCall],
     n |-> 0,
     output |-> << >>,
     returned |-> {},
     closes |-> {},
     panicked |-> FALSE]

\* Everything but the Logger stays as it is.
LogOnly == UNCHANGED << tracerVars, sampVars >>

\* writeEntry: the formatted entry is written to the output.
writeEntry(output, e) == Append(output, e)

\* With (Named, clone): the derived logger shares asyncCh and the worker; its
\* closed flag and its asyncWg are its own, and zero.
LoggerWith(t) ==
    /\ ~logs.panicked
    /\ logs.pc[t].pc = "idle"
    /\ ~logs.logger["child"].made
    /\ lib' = [logs EXCEPT !.logger["child"] = DerivedLogger]
    /\ LogOnly

\* Logger.log for an entry that passed the level and the sampler, up to the
\* test `l.async && l.asyncCh != nil && !l.closed.Load()`.
LoggerLog(t, l) ==
    /\ ~logs.panicked
    /\ logs.pc[t].pc = "idle"
    /\ logs.logger[l].made
    /\ logs.n < MaxLogs
    /\ lib' = [logs EXCEPT
                  !.n = @ + 1,
                  !.pc[t] = [pc |-> IF logs.logger[l].closed THEN "write" ELSE "send",
                             l |-> l, e |-> logs.n + 1, before |-> {}]]
    /\ LogOnly

\* The select: the clone is sent if the buffer has room (the call returns), the
\* default branch is taken if it is full; a send on the closed channel panics.
LoggerLogSend(t) ==
    /\ ~logs.panicked
    /\ logs.pc[t].pc = "send"
    /\ lib' = IF logs.ch.closed
               THEN [logs EXCEPT !.panicked = TRUE, !.pc[t].pc = "panicked"]
               ELSE IF Len(logs.ch.buf) < LogBufferSize
               THEN [logs EXCEPT !.ch.buf = Append(@, logs.pc[t].e),
                                 !.returned = @ \cup {logs.pc[t].e},
                                 !.pc[t] = NoLogCall]
               ELSE [logs EXCEPT !.pc[t].pc = "write"]
    /\ LogOnly

\* The synchronous write (channel full, or logger closed); the call returns.
LoggerLogWrite(t) ==
    /\ ~logs.panicked
    /\ logs.pc[t].pc = "write"
    /\ lib' = [logs EXCEPT !.output = writeEntry(@, logs.pc[t].e),
                            !.returned = @ \cup {logs.pc[t].e},
                            !.pc[t] = NoLogCall]
    /\ LogOnly

\* A Close() call that returns now: what had returned when it was called, and
\* what the output holds.
CloseReturned(l, before) == [l |-> l, before |-> before, out |-> logs.output]

\* Close(): l.closed.CompareAndSwap(false, true); the call that loses returns nil.
LoggerClose(t, l) ==
    /\ ~logs.panicked
    /\ logs.pc[t].pc = "idle"
    /\ logs.logger[l].made
    /\ lib' = IF logs.logger[l].closed
               THEN [logs EXCEPT !.closes = @ \cup {CloseReturned(l, logs.returned)}]
               ELSE [logs EXCEPT !.logger[l].closed = TRUE,
                                 !.pc[t] = [pc |-> "closeCh", l |-> l, e |-> 0,
                                            before |-> logs.returned]]
    /\ LogOnly

\* close(l.asyncCh); closing the closed channel panics.
LoggerCloseCh(t) ==
    /\ ~logs.panicked
    /\ logs.pc[t].pc = "closeCh"
    /\ lib' = IF logs.ch.closed
               THEN [logs EXCEPT !.panicked = TRUE, !.pc[t].pc = "panicked"]
               ELSE [logs EXCEPT !.ch.closed = TRUE, !.pc[t].pc = "wait"]
    /\ LogOnly

\* l.asyncWg.Wait() on the logger's own asyncWg; Close() returns.
LoggerCloseWait(t) ==
    /\ ~logs.panicked
    /\ logs.pc[t].pc = "wait"
    /\ logs.logger[logs.pc[t].l].wg = 0
    /\ lib' = [logs EXCEPT
                  !.closes = @ \cup {CloseReturned(logs.pc[t].l, logs.pc[t].before)},
                  !.pc[t] = NoLogCall]
    /\ LogOnly

\* asyncWorker: `for entry := range l.asyncCh`; asyncWg.Done() of the logger New
\* made once the channel is closed and empty.
LoggerWorkerRecv ==
    /\ ~logs.panicked
    /\ logs.worker.pc = "recv"
    /\ ~(logs.ch.buf = << >> /\ ~logs.ch.closed)
    /\ lib' = IF logs.ch.buf # << >>
               THEN [logs EXCEPT !.worker = [pc |-> "write", e |-> Head(logs.ch.buf)],
                                 !.ch.buf = Tail(@)]
               ELSE [logs EXCEPT !.worker = [pc |-> "done", e |-> 0],
                                 !.logger["root"].wg = 0]
    /\ LogOnly

\* asyncWorker: l.writeEntry(entry).
LoggerWorkerWrite ==
    /\ ~logs.panicked
    /\ logs.worker.pc = "write"
    /\ lib' = [logs EXCEPT !.output = writeEntry(@, logs.worker.e),
                            !.worker = [pc |-> "recv", e |-> 0]]
    /\ LogOnly

\* An asynchronous Logger and the logger derived from it, used from concurrent
\* threads.
NextLogger ==
    \/ \E t \in Threads :
        \/ LoggerWith(t)
        \/ \E l \in Loggers : LoggerLog(t, l)
        \/ LoggerLogSend(t)
        \/ LoggerLogWrite(t)
        \/ \E l \in Loggers : LoggerClose(t, l)
        \/ LoggerCloseCh(t)
        \/ LoggerCloseWait(t)
    \/ LoggerWorkerRecv
    \/ LoggerWorkerWrite

\* The state once New has returned the asynchronous Logger.
InitLogger == InitTracer /\ lib = NewAsyncLogger

SpecLogger == InitLogger /\ [][NextLogger]_vars

\* ---------------------------------------------------------------- logs.RateSampler
\* NewRateSampler(rate, window): no bucket (LoadOrStore stores &rateBucket{}:
\* count 0, lastReset 0) and no call yet; the clock of the process.
NewRateSampler(rate, window) ==
    [rate |-> rate,
     window |-> window,
     buckets |-> [m \in Messages |-> NoBucket],
     pc |-> [t \in Threads |-> NoRateCall],
     clock |-> MaxWindow,
     calls |-> 0,
     passed |-> [m \in Messages |-> 0],
     log |-> {}]

\* Everything but the RateSampler stays as it is.
RateOnly == UNCHANGED << tracerVars, sampVars >>

\* The threads inside a Sample call for message m.
RateUnderWay(m) == {t \in Threads : rateSampler.pc[t].pc # "idle" /\ rateSampler.pc[t].msg = m}

\* The clock advances.
RateTick ==
    /\ rateSampler.clock < MaxWindow + MaxTicks
    /\ lib' = [rateSampler EXCEPT !.clock = @ + 1]
    /\ RateOnly

\* Sample: now := time.Now().UnixNano(); s.counts.LoadOrStore(msg, &rateBucket{}).
\* The calls for the message that are under way overlap with this one.
RateSampleNow(t, m) ==
    /\ rateSampler.pc[t].pc = "idle"
    /\ rateSampler.calls < MaxRateCalls
    /\ lib' = [rateSampler EXCEPT
                !.calls = @ + 1,
                !.buckets[m].made = TRUE,
                !.pc = [u \in Threads |->
                          IF u = t
                          THEN [pc |-> "load", msg |-> m, now |-> rateSampler.clock,
                                lastReset |-> 0, elapsed |-> FALSE,
                                overlapped |-> RateUnderWay(m) # {}]
                          ELSE IF u \in RateUnderWay(m)
                          THEN [rateSampler.pc[u] EXCEPT !.overlapped = TRUE]
                          ELSE rateSampler.pc[u]]]
    /\ RateOnly

\* lastReset := bucket.lastReset.Load(); if now-lastReset >= int64(s.window).
RateSampleLoad(t) ==
    /\ rateSampler.pc[t].pc = "load"
    /\ LET lastReset == rateSampler.buckets[rateSampler.pc[t].msg].lastReset
           elapsed == rateSampler.pc[t].now - lastReset >= rateSampler.window
       IN lib' = [rateSampler EXCEPT !.pc[t].lastReset = lastReset,
                           !.pc[t].elapsed = elapsed,
                           !.pc[t].pc = IF elapsed THEN "cas" ELSE "add"]
    /\ RateOnly

\* bucket.lastReset.CompareAndSwap(lastReset, now): the winner resets the window.
RateSampleCAS(t) ==
    /\ rateSampler.pc[t].pc = "cas"
    /\ LET m == rateSampler.pc[t].msg IN
       lib' = IF rateSampler.buckets[m].lastReset = rateSampler.pc[t].lastReset
             THEN [rateSampler EXCEPT !.buckets[m].lastReset = rateSampler.pc[t].now,
                             !.pc[t].pc = "store",
                             !.passed[m] = 0]
             ELSE [rateSampler EXCEPT !.pc[t].pc = "add"]
    /\ RateOnly

\* A Sample call returns.
RateReturned(t, result) ==
    [msg |-> rateSampler.pc[t].msg, elapsed |-> rateSampler.pc[t].elapsed,
     overlapped |-> rateSampler.pc[t].overlapped, result |-> result]

\* bucket.count.Store(1); return passed.
RateSampleStore(t) ==
    /\ rateSampler.pc[t].pc = "store"
    /\ LET m == rateSampler.pc[t].msg IN
       lib' = [rateSampler EXCEPT !.buckets[m].count = 1,
                        !.passed[m] = @ + 1,
                        !.log = @ \cup {RateReturned(t, TRUE)},
                        !.pc[t] = NoRateCall]
    /\ RateOnly

\* count := bucket.count.Add(1); return count <= int64(s.rate).
RateSampleAdd(t) ==
    /\ rateSampler.pc[t].pc = "add"
    /\ LET m == rateSampler.pc[t].msg
           count == rateSampler.buckets[m].count + 1
       IN lib' = [rateSampler EXCEPT !.buckets[m].count = count,
                           !.passed[m] = IF count <= rateSampler.rate THEN @ + 1 ELSE @,
                           !.log = @ \cup {RateReturned(t, count <= rateSampler.rate)},
                           !.pc[t] = NoRateCall]
    /\ RateOnly

\* One RateSampler used from concurrent threads while time passes.
NextRate ==
    \/ RateTick
    \/ \E t \in Threads :
        \/ \E m \in Messages : RateSampleNow(t, m)
        \/ RateSampleLoad(t)
        \/ RateSampleCAS(t)
        \/ RateSampleStore(t)
        \/ RateSampleAdd(t)

\* The state once NewRateSampler has returned, for any rate and window.
InitRate ==
    /\ InitTracer
    /\ \E rate \in 0..MaxRate, window \in 1..MaxWindow :
          lib = NewRateSampler(rate, window)

SpecRate == InitRate /\ [][NextRate]_vars

\* ---------------------------------------------------------------- logs.CountSampler
\* NewCountSampler(n): no counter (LoadOrStore stores &atomic.Int64{}) and no
\* call yet.
NewCountSampler(n) ==
    [n |-> n,
     counts |-> [m \in Messages |-> NoCounter],
     pc |-> [t \in Threads |-> NoCountCall],
     calls |-> 0,
     log |-> {}]

\* Everything but the CountSampler stays as it is.
CountOnly == UNCHANGED << tracerVars, sampVars >>

\* The result of Sample for the count it got: count%int64(s.n) == 1.
CountResult(count, n) == count % n = 1

\* Sample: val, _ := s.counts.LoadOrStore(msg, &atomic.Int64{}).
CountSampleLoad(t, m) ==
    /\ countSampler.pc[t].pc = "idle"
    /\ countSampler.calls < MaxCountCalls
    /\ lib' = [countSampler EXCEPT !.calls = @ + 1,
                        !.counts[m].made = TRUE,
                        !.pc[t] = [pc |-> "add", msg |-> m]]
    /\ CountOnly

\* count := val.(*atomic.Int64).Add(1); return count%int64(s.n) == 1.
CountSampleAdd(t) ==
    /\ countSampler.pc[t].pc = "add"
    /\ LET m == countSampler.pc[t].msg
           count == countSampler.counts[m].count + 1
       IN lib' = [countSampler EXCEPT !.counts[m].count = count,
                           !.log = @ \cup {[msg |-> m, count |-> count,
                                            result |-> CountResult(count, countSampler.n)]},
                           !.pc[t] = NoCountCall]
    /\ CountOnly

\* One CountSampler used from concurrent threads.
NextCount ==
    \E t \in Threads :
        \/ \E m \in Messages : CountSampleLoad(t, m)
        \/ CountSampleAdd(t)

\* The state once NewCountSampler has returned, for any n >= 1.
InitCount ==
    /\ InitTracer
    /\ \E n \in 1..MaxCountN :
          lib = NewCountSampler(n)

SpecCount == InitCount /\ [][NextCount]_vars

\* ---------------------------------------------------------------- logs.FirstNSampler
\* NewFirstNSampler(n): &FirstNSampler{n: int64(n)}; no message has a counter.
NewFirstNSampler(n) ==
    [n |-> n,
     counts |-> [m \in Messages |-> NoCounter],
     pc |-> [t \in Threads |-> NoCountCall],
     calls |-> 0,
     passed |-> [m \in Messages |-> 0],
     log |-> {}]

\* Everything but the FirstNSampler stays as it is.
FirstNOnly == UNCHANGED << tracerVars, sampVars >>

\* Variant of FirstNResult for comparison: the n-th call is rejected too.
FirstNResultBelow(count, n) == count < n

\* The result of Sample for the count it got: count <= s.n.
FirstNResult(count, n) == count <= n

\* Sample: val, _ := s.counts.LoadOrStore(msg, &atomic.Int64{}).
FirstNSampleLoad(t, m) ==
    /\ firstNSampler.pc[t].pc = "idle"
    /\ firstNSampler.calls < MaxFirstNCalls
    /\ lib' = [firstNSampler EXCEPT !.calls = @ + 1,
                                    !.counts[m].made = TRUE,
                                    !.pc[t] = [pc |-> "add", msg |-> m]]
    /\ FirstNOnly

\* count := val.(*atomic.Int64).Add(1); return count <= s.n.
FirstNSampleAdd(t) ==
    /\ firstNSampler.pc[t].pc = "add"
    /\ LET m == firstNSampler.pc[t].msg
           count == firstNSampler.counts[m].count + 1
           result == FirstNResult(count, firstNSampler.n)
       IN lib' = [firstNSampler EXCEPT !.counts[m].count = count,
                                       !.passed[m] = IF result THEN @ + 1 ELSE @,
                                       !.log = @ \cup {[msg |-> m, count |-> count,
                                                        result |-> result]},
                                       !.pc[t] = NoCountCall]
    /\ FirstNOnly

\* One FirstNSampler used from concurrent threads.
NextFirstN ==
    \E t \in Threads :
        \/ \E m \in Messages : FirstNSampleLoad(t, m)
        \/ FirstNSampleAdd(t)

\* The state once NewFirstNSampler has returned, for any n >= 0.
InitFirstN ==
    /\ InitTracer
    /\ \E n \in 0..MaxFirstN :
          lib = NewFirstNSampler(n)

SpecFirstN == InitFirstN /\ [][NextFirstN]_vars

\* ---------------------------------------------------------------- metrics.Registry
\* The metrics given to Register: two with the name "x", one with the name "y".
Metrics == {"x1", "x2", "y1"}

MetricNames == {"x", "y"}

\* m.Name().
MetricName(m) == IF m = "y1" THEN "y" ELSE "x"

NoMetric == "none"

NoRegistryCall == [pc |-> "idle", m |-> NoMetric, afterClose |-> FALSE]

\* NewRegistry(opts): no metric is registered; when opts.PushInterval > 0 and
\* opts.PushExporter != nil, pushCancel is set, pushWg is 1 and pushLoop runs.
NewRegistry(push) ==
    [metrics |-> [n \in MetricNames |-> NoMetric],
     closed |-> FALSE,
     closeOnce |-> "idle",
     pushCancel |-> push,
     cancelled |-> FALSE,
     pushWg |-> IF push THEN 1 ELSE 0,
     pushLoop |-> IF push THEN "select" ELSE "none",
     samples |-> {},
     ticks |-> 0,
     pc |-> [t \in Threads |-> NoRegistryCall],
     calls |-> 0,
     closeRet |-> FALSE,
     closes |-> {},
     ncloses |-> 0,
     exports |-> 0,
     exportsAfterClose |-> 0,
     expect |-> [n \in MetricNames |-> NoMetric],
     regLog |-> {},
     getLog |-> {}]

\* Everything but the Registry stays as it is.
RegistryOnly == UNCHANGED << tracerVars, sampVars >>

\* A call can begin on thread t.
RegistryIdle(t) ==
    /\ registry.pc[t].pc = "idle"
    /\ registry.calls < MaxRegistryCalls

\* Variant of LoadOrStore for comparison: the metric is stored over the one
\* that is there.
LoadOrStoreOver(metrics, m) == [metrics EXCEPT ![MetricName(m)] = m]

\* r.metrics.LoadOrStore(m.Name(), m): the map afterwards.
LoadOrStore(metrics, m) ==
    IF metrics[MetricName(m)] # NoMetric THEN metrics
    ELSE [metrics EXCEPT ![MetricName(m)] = m]

\* A Register call that returned: the metric, the error, whether a Close() call
\* had returned when it began, the registered metrics before and after.
RegisterReturned(m, afterClose, err, after) ==
    [m |-> m, afterClose |-> afterClose, err |-> err,
     before |-> registry.metrics, after |-> after]

\* Register: if r.closed.Load() { return ErrRegistryClosed }.
RegistryRegisterLoad(t, m) ==
    /\ RegistryIdle(t)
    /\ lib' = IF registry.closed
              THEN [registry EXCEPT
                      !.calls = @ + 1,
                      !.regLog = @ \cup {RegisterReturned(m, registry.closeRet,
                                             "ErrRegistryClosed", registry.metrics)}]
              ELSE [registry EXCEPT
                      !.calls = @ + 1,
                      !.pc[t] = [pc |-> "regStore", m |-> m,
                                 afterClose |-> registry.closeRet]]
    /\ RegistryOnly

\* _, loaded := r.metrics.LoadOrStore(m.Name(), m); if loaded { return
\* ErrMetricExists }; return nil.
RegistryRegisterStore(t) ==
    /\ registry.pc[t].pc = "regStore"
    /\ LET m == registry.pc[t].m
           loaded == registry.metrics[MetricName(m)] # NoMetric
           after == LoadOrStore(registry.metrics, m)
       IN lib' = [registry EXCEPT
                    !.metrics = after,
                    !.expect = IF loaded THEN @ ELSE [@ EXCEPT ![MetricName(m)] = m],
                    !.regLog = @ \cup {RegisterReturned(m, registry.pc[t].afterClose,
                                           IF loaded THEN "ErrMetricExists" ELSE "nil",
                                           after)},
                    !.pc[t] = NoRegistryCall]
    /\ RegistryOnly

\* Unregister(name): r.metrics.Delete(name).
RegistryUnregister(t, name) ==
    /\ RegistryIdle(t)
    /\ lib' = [registry EXCEPT !.calls = @ + 1,
                               !.metrics[name] = NoMetric,
                               !.expect[name] = NoMetric]
    /\ RegistryOnly

\* What Get(name) returns for the registered metrics.
GetResult(metrics, name) ==
    IF metrics[name] # NoMetric THEN [m |-> metrics[name], err |-> "nil"]
    ELSE [m |-> NoMetric, err |-> "ErrMetricNotFound"]

\* Get(name): r.metrics.Load(name).
RegistryGet(t, name) ==
    /\ RegistryIdle(t)
    /\ lib' = [registry EXCEPT
                 !.calls = @ + 1,
                 !.getLog = @ \cup {[name |-> name,
                                     got |-> GetResult(registry.metrics, name),
                                     expect |-> registry.expect[name]]}]
    /\ RegistryOnly

\* A Close() call that returned: whether it ran the function given to
\* closeOnce.Do, where pushLoop was then, whether a Close() call had returned
\* when it began.
CloseCallReturned(ran, afterClose) ==
    [n |-> registry.ncloses + 1, ran |-> ran, afterClose |-> afterClose,
     pushLoop |-> registry.pushLoop]

\* Close: r.closeOnce.Do(...): the first call runs the function, a call made
\* while it runs waits for it, a later call returns.
RegistryClose(t) ==
    /\ RegistryIdle(t)
    /\ lib' = IF registry.closeOnce = "idle"
              THEN [registry EXCEPT !.calls = @ + 1,
                                    !.closeOnce = "running",
                                    !.pc[t] = [pc |-> "closeStore", m |-> NoMetric,
                                               afterClose |-> registry.closeRet]]
              ELSE IF registry.closeOnce = "running"
              THEN [registry EXCEPT !.calls = @ + 1,
                                    !.pc[t] = [pc |-> "closeOnceWait", m |-> NoMetric,
                                               afterClose |-> registry.closeRet]]
              ELSE [registry EXCEPT !.calls = @ + 1,
                                    !.ncloses = @ + 1,
                                    !.closes = @ \cup {CloseCallReturned(FALSE,
                                                           registry.closeRet)}]
    /\ RegistryOnly

\* The return of the Close() call on thread t.
RegistryCloseReturn(t, ran) ==
    [registry EXCEPT !.closeOnce = "done",
                     !.closeRet = TRUE,
                     !.ncloses = @ + 1,
                     !.closes = @ \cup {CloseCallReturned(ran, registry.pc[t].afterClose)},
                     !.pc[t] = NoRegistryCall]

\* r.closed.Store(true); if r.pushCancel != nil { ... }; without a push loop
\* the function and Close() return.
RegistryCloseStore(t) ==
    /\ registry.pc[t].pc = "closeStore"
    /\ lib' = IF registry.pushCancel
              THEN [registry EXCEPT !.closed = TRUE,
                                    !.pc[t].pc = "closeCancel"]
              ELSE [RegistryCloseReturn(t, TRUE) EXCEPT !.closed = TRUE]
    /\ RegistryOnly

\* r.pushCancel().
RegistryCloseCancel(t) ==
    /\ registry.pc[t].pc = "closeCancel"
    /\ lib' = [registry EXCEPT !.cancelled = TRUE,
                               !.pc[t].pc = "closeWait"]
    /\ RegistryOnly

\* Variant of PushWgDone for comparison: Close() does not wait for pushLoop.
PushWgNotAwaited == TRUE

\* r.pushWg.Wait() can return.
PushWgDone == registry.pushWg = 0

\* r.pushWg.Wait(); the function and Close() return.
RegistryCloseWait(t) ==
    /\ registry.pc[t].pc = "closeWait"
    /\ PushWgDone
    /\ lib' = RegistryCloseReturn(t, TRUE)
    /\ RegistryOnly

\* A Close() call made while the function of closeOnce ran returns when that
\* function has returned.
RegistryCloseOnceWait(t) ==
    /\ registry.pc[t].pc = "closeOnceWait"
    /\ registry.closeOnce = "done"
    /\ lib' = RegistryCloseReturn(t, FALSE)
    /\ RegistryOnly

\* pushLoop: select, case <-ctx.Done(): return (defer r.pushWg.Done()).
PushLoopDone ==
    /\ registry.pushLoop = "select"
    /\ registry.cancelled
    /\ lib' = [registry EXCEPT !.pushLoop = "exited", !.pushWg = 0]
    /\ RegistryOnly

\* pushLoop: select, case <-ticker.C: samples := r.Collect(). With ctx.Done()
\* ready as well, select takes either case.
PushLoopTick ==
    /\ registry.pushLoop = "select"
    /\ registry.ticks < MaxPushes
    /\ lib' = [registry EXCEPT
                 !.ticks = @ + 1,
                 !.samples = {registry.metrics[n] : n \in MetricNames} \ {NoMetric},
                 !.pushLoop = "export"]
    /\ RegistryOnly

\* pushLoop: r.opts.PushExporter.Export(samples).
PushLoopExport ==
    /\ registry.pushLoop = "export"
    /\ lib' = [registry EXCEPT
                 !.exports = @ + 1,
                 !.exportsAfterClose = IF registry.closeRet THEN @ + 1 ELSE @,
                 !.samples = {},
                 !.pushLoop = "select"]
    /\ RegistryOnly

\* One Registry without a push loop, used from concurrent threads.
NextRegistry ==
    \E t \in Threads :
        \/ \E m \in Metrics : RegistryRegisterLoad(t, m)
        \/ RegistryRegisterStore(t)
        \/ \E name \in MetricNames : RegistryUnregister(t, name)
        \/ \E name \in MetricNames : RegistryGet(t, name)
        \/ RegistryClose(t)
        \/ RegistryCloseStore(t)
        \/ RegistryCloseOnceWait(t)

\* The state once NewRegistry has returned, without a push loop.
InitRegistry == InitTracer /\ lib = NewRegistry(FALSE)

SpecRegistry == InitRegistry /\ [][NextRegistry]_vars

\* One Registry registered with and closed from concurrent threads, with its
\* push loop if it has one.
NextRegistryPush ==
    \/ \E t \in Threads :
          \/ \E m \in Metrics : RegistryRegisterLoad(t, m)
          \/ RegistryRegisterStore(t)
          \/ RegistryClose(t)
          \/ RegistryCloseStore(t)
          \/ RegistryCloseCancel(t)
          \/ RegistryCloseWait(t)
          \/ RegistryCloseOnceWait(t)
    \/ PushLoopDone
    \/ PushLoopTick
    \/ PushLoopExport

\* The state once NewRegistry has returned, with a push loop or without one.
InitRegistryPush ==
    /\ InitTracer
    /\ \E push \in BOOLEAN :
          lib = NewRegistry(push)

SpecRegistryPush == InitRegistryPush /\ [][NextRegistryPush]_vars

\* ---------------------------------------------------------------- mutation methods, step by step
\* The mutation methods that take the span's mutex.
WriteKinds == {"SetAttribute", "SetAttributes", "AddEvent", "SetStatus"}

NoWrite == [k |-> 0, o |-> 0, kind |-> "none", n |-> 0]

\* No mutation method was called yet; max calls will be made.
NoWrites(max) == [max |-> max, call |-> [t \in Threads |-> NoWrite], applied |-> {}]

\* What a call writes: the span it was made on, the thread and the number of
\* the call.
Written(k, t, n) == [k |-> k, by |-> t, n |-> n]

\* Variant of Locked for comparison: SetAttribute and SetAttributes replace the
\* attribute of the same key instead of appending.
LockedLastWins(s, kind, e) ==
    IF kind = "SetAttribute" THEN [s EXCEPT !.attributes = << e >>]
    ELSE IF kind = "SetAttributes" THEN [s EXCEPT !.attributes = << e, e >>]
    ELSE IF kind = "AddEvent" THEN [s EXCEPT !.events = Append(@, e)]
    ELSE [s EXCEPT !.status = StatusOK, !.statusMsg = "msg"]

\* The statements between s.mu.Lock() and s.mu.Unlock(): an append to
\* s.attributes (of one attribute, of two), an append to s.events, the
\* assignments to s.status and s.statusMsg.
Locked(s, kind, e) ==
    IF kind = "SetAttribute" THEN [s EXCEPT !.attributes = Append(@, e)]
    ELSE IF kind = "SetAttributes" THEN [s EXCEPT !.attributes = @ \o << e, e >>]
    ELSE IF kind = "AddEvent" THEN [s EXCEPT !.events = Append(@, e)]
    ELSE [s EXCEPT !.status = StatusOK, !.statusMsg = "msg"]

\* A mutation method, first statement: if s.noop || s.ended.Load() { return }.
\* The call is made on a span whose End() has not returned.
MutationCheck(t, k, kind) ==
    /\ Idle(t)
    /\ k \in 1..nspans
    /\ ~endRet[k]
    /\ nmut < writes.max
    /\ nmut' = nmut + 1
    /\ IF Ignores(obj[hs[k].obj])
       THEN UNCHANGED << pc, lib >>
       ELSE /\ pc' = [pc EXCEPT ![t] = "lock"]
            /\ lib' = [writes EXCEPT !.call[t] = [k |-> k, o |-> hs[k].obj,
                                                  kind |-> kind, n |-> nmut + 1]]
    /\ UNCHANGED << async, closed, once, chClosed, queue, worker, pool, nalloc, obj, cur,
                    loc, nspans, hs, last, owner, endRet, endRetPre, expLog,
                    expCount, relCount, closeRet, panicked >>
    /\ UNCHANGED sampVars

\* s.mu.Lock(); the write; s.mu.Unlock(). The call is recorded with the span
\* the object then is, and whether the span it was made on had been exported
\* and released.
MutationLocked(t) ==
    /\ pc[t] = "lock"
    /\ LET c == writes.call[t]
       IN /\ obj' = [obj EXCEPT ![c.o] = Locked(@, c.kind, Written(c.k, t, c.n))]
          /\ lib' = [writes EXCEPT
                       !.call[t] = NoWrite,
                       !.applied = @ \cup {[k |-> c.k, kind |-> c.kind, by |-> t, n |-> c.n,
                                            id |-> obj[c.o].spanID,
                                            exported |-> expCount[c.k] > 0,
                                            released |-> relCount[c.k] > 0]}]
    /\ pc' = [pc EXCEPT ![t] = "idle"]
    /\ UNCHANGED << async, closed, once, chClosed, queue, worker, pool, nalloc, cur,
                    loc, nspans, nmut, hs, last, owner, endRet, endRetPre, expLog,
                    expCount, relCount, closeRet, panicked >>
    /\ UNCHANGED sampVars

\* Callers that keep to the ownership rule for End() (a span is ended by the
\* thread that started it, once) while any thread calls the mutation methods
\* on any span whose End() has not returned. Every span is sampled.
NextRace ==
    \/ \E t \in Threads :
          \/ StartCheck(t, 0, "none")
          \/ \E o \in Objs : getSpan(t, o)
          \/ StartFill(t, << >>, TRUE)
          \/ exportSpanSend(t)
          \/ exportSpanExport(t)
          \/ exportSpanRelease(t)
          \/ MutationLocked(t)
    \/ \E t \in Threads, k \in Handles :
          \/ owner[k] = t /\ End(t, k)
          \/ \E kind \in WriteKinds : MutationCheck(t, k, kind)
    \/ Worker

\* The tracer, and no mutation method called yet.
InitRace == InitTracer /\ lib = NoWrites(MaxMut)

SpecRace == InitRace /\ [][NextRace]_vars

\* Concurrent callers of SetAttribute, SetAttributes and AddEvent on a span
\* that is not ended: one span is started, by one thread, sampled or not.
NextWrites ==
    \/ nspans = 0 /\ StartCheck(Caller, 0, "none")
    \/ \E o \in Objs : getSpan(Caller, o)
    \/ \E dec \in BOOLEAN : StartFill(Caller, << >>, dec)
    \/ \E t \in Threads :
          \/ \E kind \in WriteKinds \ {"SetStatus"} : MutationCheck(t, 1, kind)
          \/ MutationLocked(t)

\* The tracer, and no mutation method called yet.
InitWrites == InitTracer /\ lib = NoWrites(MaxWrites)

SpecWrites == InitWrites /\ [][NextWrites]_vars

\* ---------------------------------------------------------------- WriterExporter
\* The spans given to Export: their span ID and the kind of value their
\* attribute holds (Attribute.Value is any): one that encoding/json encodes,
\* or one it does not (a NaN float64, a channel, a func).
WriterSpans == [id : {"s1", "s2"}, value : {"int", "NaN"}]

NoWriterCall == [pc |-> "idle", data |-> [id |-> "", value |-> "int"]]

\* NewWriterExporter(w): nothing written, the mutex free.
NewWriterExporter ==
    [writer |-> << >>,
     mu |-> "",
     pc |-> [t \in Threads |-> NoWriterCall],
     calls |-> 0,
     returned |-> << >>]

\* Everything but the WriterExporter stays as it is.
WriterOnly == UNCHANGED << tracerVars, sampVars >>

\* json.Marshal(data): the bytes of one object, or no bytes and an error for
\* a value it does not support.
Marshal(data) ==
    IF data.value = "NaN" THEN [encoded |-> << >>, err |-> "UnsupportedValueError"]
    ELSE [encoded |-> << "{", data.id, "}" >>, err |-> "nil"]

\* e.writer.Write(p): the bytes are appended to what was written.
Write(writer, p) == writer \o p

\* Export, up to the lock: data := spanData{...} from the span's fields.
WriterExportData(t, span) ==
    /\ writerExporter.pc[t].pc = "idle"
    /\ writerExporter.calls < MaxWriterExports
    /\ lib' = [writerExporter EXCEPT !.calls = @ + 1,
                                     !.pc[t] = [pc |-> "lock", data |-> span]]
    /\ WriterOnly

\* Variant of MutexFree for comparison: Export does not take the mutex.
MutexNotTaken == TRUE

\* e.mu.Lock() can return.
MutexFree == writerExporter.mu = ""

\* e.mu.Lock()
WriterExportLock(t) ==
    /\ writerExporter.pc[t].pc = "lock"
    /\ MutexFree
    /\ lib' = [writerExporter EXCEPT !.mu = t, !.pc[t].pc = "marshal"]
    /\ WriterOnly

\* encoded, _ := json.Marshal(data); e.writer.Write(encoded): the error is
\* dropped.
WriterExportWrite(t) ==
    /\ writerExporter.pc[t].pc = "marshal"
    /\ lib' = [writerExporter EXCEPT
                 !.writer = Write(@, Marshal(writerExporter.pc[t].data).encoded),
                 !.pc[t].pc = "newline"]
    /\ WriterOnly

\* e.writer.Write([]byte("\n")); the deferred e.mu.Unlock(); Export returns.
WriterExportNewline(t) ==
    /\ writerExporter.pc[t].pc = "newline"
    /\ lib' = [writerExporter EXCEPT
                 !.writer = Write(@, << "\n" >>),
                 !.mu = "",
                 !.returned = Append(@, writerExporter.pc[t].data),
                 !.pc[t] = NoWriterCall]
    /\ WriterOnly

\* One WriterExporter called from concurrent threads.
NextWriter ==
    \E t \in Threads :
        \/ \E span \in WriterSpans : WriterExportData(t, span)
        \/ WriterExportLock(t)
        \/ WriterExportWrite(t)
        \/ WriterExportNewline(t)

\* The state once NewWriterExporter has returned.
InitWriter == InitTracer /\ lib = NewWriterExporter

SpecWriter == InitWriter /\ [][NextWriter]_vars

\* ---------------------------------------------------------------- claims
Started == 1..nspans

\* The Export calls that End() calls made on handle k led to.
ExportsBy(k) == {e \in expLog : e.call = k}

\* Span k waits in the queue or in the worker's hands for its export.
Pending(k) ==
    \/ \E i \in 1..Len(queue) : queue[i].call = k
    \/ worker.pc = "export" /\ worker.call = k

\* C1: however many End() calls are made on one span, from whatever threads,
\* they lead to one Export call at most, which is the export of that span (the
\* calls that do not win the compare-and-swap do no work), and to one release.
C1_EndExactlyOnce ==
    \A k \in Started :
        /\ Cardinality(ExportsBy(k)) <= 1
        /\ \A e \in ExportsBy(k) : e.id = k
        /\ expCount[k] <= 1
        /\ relCount[k] <= 1

\* C2: asynchronous export: when a Close() call has returned the queue is
\* empty, the worker has exited, and every sampled span whose End() returned
\* before Close() was called has been exported exactly once.
C2_CloseDrains ==
    (async /\ closeRet) =>
        /\ queue = << >>
        /\ worker.pc = "done"
        /\ \A k \in Started : (hs[k].sampled /\ endRetPre[k]) => expCount[k] = 1

\* C2 witness: Close() returned after the worker exported a span whose End()
\* had returned before Close() was called.
C2_Witness ==
    /\ async /\ closeRet
    /\ \E e \in expLog : e.by = "worker" /\ e.id \in Started /\ endRetPre[e.id]

\* C3: asynchronous export: an End() running together with Close(), or after
\* it, never sends on the closed queue (no goroutine panics), and the span it
\* ends is exported exactly once when the call is over.
C3_NoSendOnClosedQueue ==
    /\ ~panicked
    /\ \A k \in Started :
          (async /\ hs[k].sampled /\ endRet[k]) => (expCount[k] = 1 \/ Pending(k))

\* C4: asynchronous export: an End() that finds the queue full exports on the
\* caller's thread and releases the span after that; whatever the capacity
\* and the producers, a sampled span whose End() returned is exported once
\* (it waits for the worker or has been exported), no span is exported
\* twice, none is released before its export, and the exporter never sees a
\* reset object.
C4_FullQueueFallback ==
    async =>
        /\ \A k \in Started :
              /\ expCount[k] <= 1
              /\ relCount[k] <= expCount[k]
              /\ (hs[k].sampled /\ endRet[k]) =>
                    \/ expCount[k] = 1 /\ ~Pending(k)
                    \/ expCount[k] = 0 /\ Pending(k)
              /\ \A e \in ExportsBy(k) :
                    (e.by = "caller" /\ endRet[k]) => relCount[k] = 1
        /\ \A t \in Threads :
              pc[t] = "release" =>
                  /\ expCount[cur[t].k] = 1
                  /\ relCount[cur[t].k] = 0
                  /\ \E e \in ExportsBy(cur[t].k) : e.by = "caller" /\ e.id = cur[t].k
        /\ expCount[0] = 0
        /\ relCount[0] = 0

\* C4 witness: no Close() was ever called, yet a span was exported on the
\* caller's thread of an asynchronous tracer (the queue was full), then
\* released, and its End() has returned.
C4_Witness ==
    /\ async /\ once = "idle"
    /\ \E e \in expLog : e.by = "caller" /\ e.id \in Started /\ endRet[e.id]
                          /\ relCount[e.id] = 1 /\ expCount[e.id] = 1

\* C5: once End() has returned on a span, a later SetAttribute, SetAttributes,
\* AddEvent, SetStatus or RecordError call on that span object changes none of
\* the object's fields.
C5_MutationAfterEndIgnored ==
    [][\A t \in Threads, k \in Handles :
          (k \in Started /\ endRet[k] /\ Mutator(t, k)) =>
              obj'[hs[k].obj] = obj[hs[k].obj]]_vars

\* The fields a span returned by Start must have cleared.
Clean(s) ==
    /\ s.attributes = << >>
    /\ s.events = << >>
    /\ s.status = StatusUnset
    /\ s.statusMsg = ""
    /\ s.endTime = 0
    /\ ~s.ended

\* C6: a span that Start returns, when Start was called without options, has
\* no attributes, no events, status Unset, no status message, a zero end time
\* and a cleared ended flag, whatever the previous occupant of its object had.
C6_StartReturnsCleanSpan ==
    (last.k # 0 /\ last.opts = << >>) => Clean(last.born)

\* C6 witness: Start without options has just handed out an object whose
\* previous occupant was exported with an attribute, an event, status Error
\* and an end time, and was then released.
C6_Witness ==
    /\ last.k # 0 /\ last.opts = << >> /\ ~last.born.noop
    /\ \E e \in expLog :
          /\ e.o = hs[last.k].obj /\ e.id # last.k /\ relCount[e.id] = 1
          /\ e.span.attributes # << >> /\ e.span.events # << >>
          /\ e.span.status = StatusError /\ e.span.statusMsg # ""
          /\ e.span.endTime # 0 /\ e.span.ended

\* C7: a span that a Start called after a Close() had returned hands out is a
\* no-op span: whatever is called on it, its object stays as it was made, is
\* never exported, is in no pool and is no other span's object.
C7_ClosedTracerNoop ==
    \A k \in Started :
        hs[k].after =>
            /\ hs[k].noop
            /\ obj[hs[k].obj] = NoopSpan
            /\ pool[hs[k].obj] = 0
            /\ \A e \in expLog : e.o # hs[k].obj
            /\ \A j \in Started : j # k => hs[j].obj # hs[k].obj

\* C7 witness: the only span is one started after Close() returned; every
\* mutation-method call the bound allows was made on it, and End() was called.
C7_Witness ==
    /\ nspans = 1 /\ hs[1].after /\ closeRet
    /\ nmut = MaxMut
    /\ endRet[1]

\* The IDs handle k was given by its Start (span ID k for a real span).
GivenSpanID(k) == IF hs[k].noop THEN 0 ELSE k

\* C8: a span B started on an open tracer from a context that holds an earlier
\* span A has A's trace ID, A's span ID as parent ID, and a span ID of its own,
\* at whatever time after A's Start.
C8_ParentLinkage ==
    (last.k # 0 /\ ~last.born.noop /\ last.par # 0 /\ ~hs[last.par].noop) =>
        /\ last.born.traceID = hs[last.par].traceID
        /\ last.born.parentID = GivenSpanID(last.par)
        /\ last.born.spanID # GivenSpanID(last.par)
        /\ IsValid(last.born.spanID)

\* C9 as claimed: the context's span wins over the context's TraceContext; with
\* a TraceContext only, its trace ID and span ID are taken; with neither the
\* span is a root.  The span ID is new and valid in all three cases.
C9_ParentOrderAsClaimed ==
    (last.k # 0 /\ ~last.born.noop) =>
        /\ IF last.par # 0
           THEN /\ last.born.traceID = hs[last.par].traceID
                /\ last.born.parentID = GivenSpanID(last.par)
           ELSE IF last.tc # "none"
           THEN /\ last.born.traceID = TraceContextOf(last.tc).TraceID
                /\ last.born.parentID = TraceContextOf(last.tc).SpanID
           ELSE /\ last.born.traceID = last.k
                /\ ~IsValid(last.born.parentID)
        /\ last.born.spanID = last.k
        /\ IsValid(last.born.spanID)

\* The context's span has not been released since its Start.
Unreleased(k) == ~hs[k].noop /\ relCount[k] = 0

\* C9 as amended: validity of the trace ID decides.  The context's span wins
\* when the trace ID its object holds is valid (it is the span's own trace ID
\* as long as the span has not been released); otherwise a TraceContext with a
\* valid trace ID gives trace ID and parent ID; otherwise the span is a root
\* with a new valid trace ID and a zero parent ID.  The span ID is new and
\* valid in every case.
C9_ParentOrder ==
    (last.k # 0 /\ ~last.born.noop) =>
        /\ IF ~last.parent.nil /\ IsValid(last.parent.traceID)
           THEN /\ last.born.traceID = last.parent.traceID
                /\ last.born.parentID = last.parent.spanID
           ELSE IF last.tc # "none" /\ IsValid(TraceContextOf(last.tc).TraceID)
           THEN /\ last.born.traceID = TraceContextOf(last.tc).TraceID
                /\ last.born.parentID = TraceContextOf(last.tc).SpanID
           ELSE /\ last.born.traceID = last.k
                /\ IsValid(last.born.traceID)
                /\ ~IsValid(last.born.parentID)
        /\ (last.par # 0 /\ Unreleased(last.par)) =>
              /\ last.born.traceID = hs[last.par].traceID
              /\ last.born.parentID = last.par
        /\ last.born.spanID = last.k
        /\ IsValid(last.born.spanID)

\* C9 witness: a context with an unreleased span and a valid TraceContext; the
\* span won.
C9_Witness ==
    /\ last.k # 0 /\ ~last.born.noop
    /\ last.par # 0 /\ Unreleased(last.par) /\ last.tc = "valid"
    /\ last.born.traceID = hs[last.par].traceID
    /\ last.born.traceID # TraceContextOf("valid").TraceID
    /\ last.born.parentID = last.par

\* C10: the exporter only ever sees spans for which the sampler returned true
\* at Start.
C10_OnlySampledExported ==
    \A e \in expLog : e.id \in Started /\ hs[e.id].sampled /\ e.span.sampled

\* C10 witness: a span the sampler rejected has been ended, and the exporter
\* has been called (for another span).
C10_Witness ==
    /\ \E k \in Started : ~hs[k].noop /\ ~hs[k].sampled /\ endRet[k]
                           /\ obj[hs[k].obj].ended
    /\ expLog # {}

\* Span k is in the worker's hands between its export and its release.
InRelease(k) == worker.pc = "release" /\ worker.call = k

\* C11: every span that an open tracer handed out and whose End() has
\* returned, sampled or not, is reset and put back into the pool exactly once
\* (on an asynchronous tracer it may still wait for the worker to do so).
C11_EveryEndedSpanReleased ==
    \A k \in Started :
        ~hs[k].noop =>
            /\ relCount[k] <= 1
            /\ endRet[k] => (relCount[k] = 1 \/ Pending(k) \/ InRelease(k))

\* An End() call has been made on handle k (it is running or has returned).
EndCalled(k) ==
    \/ endRet[k]
    \/ \E t \in Threads : cur[t].k = k /\ pc[t] \in {"send", "export", "release", "panicked"}

\* Span k is live: handed out by an open tracer and End() not yet called on it.
Live(k) == k \in Started /\ ~hs[k].noop /\ ~EndCalled(k)

\* C12: a live span still is the occupant of its object, is not ended, has
\* not been exported or released, is not in the pool and shares its object
\* with no other live span, whatever End() calls are made on other spans
\* (duplicate and late ones included).
C12_LiveSpanUntouched ==
    \A k \in Started :
        Live(k) =>
            /\ obj[hs[k].obj].spanID = k
            /\ ~obj[hs[k].obj].ended
            /\ expCount[k] = 0
            /\ relCount[k] = 0
            /\ pool[hs[k].obj] = 0
            /\ \A j \in Started : (j # k /\ Live(j)) => hs[j].obj # hs[k].obj

\* Span.IsSampled
IsSampled(s) == s.sampled

\* C13: Start calls the sampler once for every span an open tracer hands out
\* and not at all on a closed tracer, and IsSampled() on a span returns the
\* sampler's result at every later point, after mutations and after End().
C13_SampledFlagFixed ==
    /\ sampCalls = Cardinality({k \in Started : ~hs[k].noop})
    /\ \A k \in Started : IsSampled(obj[hs[k].obj]) = hs[k].sampled

\* The threads that are running the function given to closeOnce.Do.
Closers == {t \in Threads : pc[t] \in {"closeCh", "closeWg"}}

\* C14: however many Close() calls are made, one after the other or together,
\* one of them at most runs the shutdown, the queue is closed once and never a
\* second time, and no call returns before the shutdown is over: the flag is
\* set and, on an asynchronous tracer, the queue is closed and empty and the
\* worker has exited.
C14_CloseIdempotent ==
    /\ [](/\ Cardinality(Closers) <= 1
          /\ (Closers # {}) => once = "running"
          /\ chClosed => (async /\ closed /\ once # "idle")
          /\ closeRet =>
                /\ once = "done" /\ closed /\ Closers = {}
                /\ async => (chClosed /\ queue = << >> /\ worker.pc = "done"))
    /\ [][\A t \in Threads : (async /\ CloseChan(t)) => ~chClosed]_vars

\* C14 witness: on an asynchronous tracer whose worker had a span to export,
\* one Close() call has run the shutdown and returned, while a second call,
\* made during the shutdown, has waited for it.
C14_Witness ==
    /\ async /\ closeRet /\ once = "done"
    /\ \E t \in Threads : pc[t] = "closeWait"
    /\ \E e \in expLog : e.by = "worker"

\* C15: on an asynchronous tracer a thread inside End() can always take its
\* next step, whatever the queue holds and wherever the worker stands; the
\* select that finds the open queue full leaves the queue alone and goes on to
\* the export on the caller's thread; and from there End() returns, with the
\* span exported by the caller, even if the worker never runs again.
C15_EndNeverWaits ==
    /\ [](\A t \in Threads :
              (async /\ pc[t] \in {"send", "export", "release"}) => ENABLED EndSteps(t))
    /\ [][\A t \in Threads :
              (exportSpanSend(t) /\ ~chClosed /\ Len(queue) = QueueCap) =>
                  (pc'[t] = "export" /\ queue' = queue)]_vars
    /\ \A t \in Threads, k \in Handles :
          (async /\ pc[t] = "export" /\ cur[t].k = k) ~>
              (endRet[k] /\ \E e \in expLog : e.call = k /\ e.by = "caller")

\* C15 witness: the queue of an open asynchronous tracer is full and the
\* worker has not taken a single span from it, yet an End() call has
\* returned after exporting its span on the caller's thread.
C15_Witness ==
    /\ async /\ once = "idle" /\ Len(queue) = QueueCap /\ worker.pc = "recv"
    /\ \A e \in expLog : e.by = "caller"
    /\ \E e \in expLog : e.id \in Started /\ endRet[e.id] /\ relCount[e.id] = 1

\* Thread t is inside a Close() call.
InClose(t) == pc[t] \in {"closeCh", "closeWg", "closeWait"}

C17_FollowsParentDecision ==
    (last.k # 0 /\ ~last.born.noop) =>
        /\ (last.par # 0 /\ Unreleased(last.par)) =>
              last.born.sampled = hs[last.par].sampled
        /\ (last.par = 0 /\ last.tc # "none" /\ IsValid(TraceContextOf(last.tc).TraceID)) =>
              last.born.sampled = TraceContextIsSampled(TraceContextOf(last.tc))

\* The ParentBasedSampler calls logged.
ParentBasedCalls == {c \in sampLog : c.sampler = "parentBased"}

RatioCalls == {c \in sampLog : c.sampler = "ratio"}

\* round(p * 100) for the ratio p (in thousandths) the sampler was made with.
Round100(ratio) == (ratio * 100 + 500) \div 1000

\* The counter values that calls still under way hold.
RatioInFlight == {sampLocal[t] : t \in {u \in Threads : sampLocal[u] # 0}}

\* C19: with T = round(p * 100), the call that gets the n-th counter value
\* returns true exactly when (n mod 100) < T, and the counter values 1..n are
\* handed out one per call: none is skipped, none is used by two calls.
C19_RatioPattern ==
    ratioSampler.made =>
        /\ \A c \in RatioCalls : c.result = ((c.n % 100) < Round100(ratioSampler.ratio))
        /\ {c.n : c \in RatioCalls} \cup RatioInFlight = 1..ratioSampler.counter
        /\ {c.n : c \in RatioCalls} \cap RatioInFlight = {}
        /\ \A t, u \in Threads : (t # u /\ sampLocal[t] # 0) => sampLocal[t] # sampLocal[u]

\* The TraceIDRatioSampler calls logged.
TraceIDRatioCalls == {c \in sampLog : c.sampler = "traceIDRatio"}

\* C20: two TraceIDRatioSample(p).ShouldSample calls with the same p and the
\* same trace ID return the same boolean, whatever the name and the parent ID
\* given, the instance, the calling thread and the calls made before.
C20_TraceIDRatioDeterministic ==
    \A c, d \in TraceIDRatioCalls :
        (c.ratio = d.ratio /\ c.params.TraceID = d.params.TraceID) => c.result = d.result

\* C20 witness: two calls for one trace ID on samplers made with ratio 0.5,
\* with different names and different parent IDs.
C20_Witness ==
    \E c, d \in TraceIDRatioCalls :
        /\ c.ratio = 500 /\ d.ratio = 500
        /\ c.params.TraceID = d.params.TraceID
        /\ c.params.Name # d.params.Name
        /\ c.params.ParentID # d.params.ParentID

\* The ratio the RatioSampler instance was made with, as given to RatioSample.
RatioGiven == {c.ratio : c \in {d \in sampLog : d.sampler = "RatioSample"}}

\* The ratio inside [0, 1] that a given ratio stands for: 0 below, 1 above.
Nearest(ratio) == IF ratio < 0 THEN 0 ELSE IF ratio > 1000 THEN 1000 ELSE ratio

\* C21: a ratio outside [0, 1] never makes a constructor fail, and the sampler
\* made with it is the sampler made with 0 (ratio below 0) or with 1 (ratio
\* above 1): the RatioSampler starts with the same threshold and counter and
\* every call on it returns what that call returns on the other, and a
\* TraceIDRatioSampler call returns for every trace ID what the other returns.
C21_RatioClamped ==
    /\ ~ratioSampler.made => \A ratio \in Ratios : ENABLED NewRatioSampler(ratio)
    /\ \A ratio \in RatioGiven :
          /\ [ratioSampler EXCEPT !.counter = 0] = RatioSample(Nearest(ratio))
          /\ \A c \in RatioCalls :
                c.result = ((c.n % 100) < RatioSample(Nearest(ratio)).threshold)
    /\ \A c, d \in TraceIDRatioCalls :
          (d.ratio = Nearest(c.ratio) /\ c.params = d.params) => c.result = d.result

\* C21 witness: a RatioSampler made with ratio 1.5 has answered a call, and
\* one trace ID was given to samplers made with TraceIDRatioSample(-0.5) and
\* TraceIDRatioSample(0).
C21_Witness ==
    /\ 1500 \in RatioGiven /\ RatioCalls # {}
    /\ \E c, d \in TraceIDRatioCalls :
          c.ratio = -500 /\ d.ratio = 0 /\ c.params = d.params

\* C22: for every TraceContext with a valid trace ID, a valid span ID and any
\* flags byte, ParseW3CTraceparent(FormatW3CTraceparent(tc)) succeeds and
\* returns the same trace ID, the same span ID and the same sampled flag.
C22_FormatParseRoundTrip ==
    parsed.fn = "FormatThenParse" =>
        /\ ~parsed.out.nil /\ parsed.out.err = "nil"
        /\ parsed.out.tc.TraceID = parsed.tc.TraceID
        /\ parsed.out.tc.SpanID = parsed.tc.SpanID
        /\ FlagsSampled(parsed.out.tc) = FlagsSampled(parsed.tc)

\* C22 witness: the round trip of a context whose flags byte is below 16,
\* with the sampled bit set next to another bit, and whose identifiers have
\* bytes below 16.
C22_Witness ==
    /\ parsed.fn = "FormatThenParse"
    /\ parsed.tc.TraceFlags = 3
    /\ parsed.tc.TraceID[16] = 10 /\ parsed.tc.SpanID[8] = 10
    /\ parsed.header = << "0", "0", "-" >> \o Rep("0", 30) \o << "0", "a", "-" >>
                          \o Rep("0", 14) \o << "0", "a", "-", "0", "3" >>

\* The header as the claim reads it: surrounding white space trimmed, then
\* lower-cased.
Canonical(header) == ToLower(TrimSpace(header))

\* s is 00-<32 digits>-<16 digits>-<2 digits>, digits from 0-9a-f: 55
\* characters with the hyphens at 3, 36 and 53.
HyphenAt == {3, 36, 53}
WellFormedTraceparent(s) ==
    /\ Len(s) = 55
    /\ \A i \in 1..55 : IF i \in HyphenAt THEN s[i] = "-" ELSE s[i] \in LowerHexClass
    /\ s[1] = "0" /\ s[2] = "0"

\* C23: ParseW3CTraceparent returns a context exactly for the headers that,
\* trimmed and lower-cased, match the pattern with version 00; for every other
\* header it returns a nil context and a non-nil error, and it never returns a
\* context together with an error.
C23_ParseAcceptsExactlyWellFormed ==
    parsed.fn = "ParseW3CTraceparent" =>
        /\ ~parsed.out.nil <=> WellFormedTraceparent(Canonical(parsed.header))
        /\ parsed.out.nil <=> parsed.out.err # "nil"

\* C23 witness: a header in upper case with white space around it was
\* accepted and decoded.
C23_Witness ==
    /\ parsed.fn = "ParseW3CTraceparent"
    /\ parsed.header = << " ", "0", "0", "-" >> \o Rep("a", 31) \o << "F", "-" >>
                          \o Rep("B", 16) \o << "-", "0", "A", "\t", "\n" >>
    /\ ~parsed.out.nil
    /\ parsed.out.tc.TraceID = Rep(170, 15) \o << 175 >>
    /\ parsed.out.tc.SpanID = Rep(187, 8)
    /\ parsed.out.tc.TraceFlags = 10

\* C24: ParseHeaders returns a context exactly when traceID is 32 hexadecimal
\* digits and spanID is empty or 16 hexadecimal digits; the context holds the
\* decoded trace ID and, for an empty spanID, the all-zero span ID; otherwise
\* the result is nil with ErrInvalidTraceID if the trace ID is at fault, else
\* with ErrInvalidSpanID.
HexString(s, n) == Len(s) = n /\ \A i \in 1..n : FromHexChar(s[i]) >= 0

C24_ParseHeaders ==
    parsed.fn = "ParseHeaders" =>
        LET okTrace == HexString(parsed.traceID, 32)
            okSpan == parsed.spanID = << >> \/ HexString(parsed.spanID, 16)
        IN /\ ~parsed.out.nil <=> (okTrace /\ okSpan)
           /\ ~parsed.out.nil =>
                 /\ parsed.out.err = "nil"
                 /\ EncodeToString(parsed.out.tc.TraceID) = ToLower(parsed.traceID)
                 /\ parsed.spanID = << >> => parsed.out.tc.SpanID = ZeroBytes(8)
                 /\ parsed.spanID # << >> =>
                       EncodeToString(parsed.out.tc.SpanID) = ToLower(parsed.spanID)
           /\ ~okTrace => parsed.out.nil /\ parsed.out.err = "ErrInvalidTraceID"
           /\ (okTrace /\ ~okSpan) => parsed.out.nil /\ parsed.out.err = "ErrInvalidSpanID"

\* C24 witness: ParseHeaders was given a trace ID and an empty span ID and
\* returned the decoded trace ID with the all-zero span ID.
C24_Witness ==
    /\ parsed.fn = "ParseHeaders"
    /\ parsed.traceID = Rep("a", 31) \o << "F" >> /\ parsed.spanID = << >>
    /\ ~parsed.out.nil
    /\ parsed.out.tc.TraceID = Rep(170, 15) \o << 175 >>
    /\ parsed.out.tc.SpanID = ZeroBytes(8)

\* The spans the closure made by EndFunc was called on.
ClosureCalled == {k \in Started : endFnLog[k].called /\ ~hs[k].noop}

\* The span s carries what the closure called on handle k has to leave: with
\* an error, the events it found and one "exception" event after them, status
\* Error and the error's message; without, the events and status it found.
CarriesClosureResult(s, k) ==
    LET c == endFnLog[k]
    IN IF c.errPtr \in {"nilPtr", "nilErr"}
       THEN /\ s.events = c.before.events
            /\ s.status = c.before.status /\ s.statusMsg = c.before.statusMsg
       ELSE /\ s.events = Append(c.before.events, "exception")
            /\ s.status = StatusError /\ s.statusMsg = c.errPtr

\* C25: the closure EndFunc(errPtr) returns, called on a span: with a non-nil
\* errPtr that points to a non-nil error the error is recorded before the span
\* is ended, and the exported span carries it; with a nil errPtr or a nil
\* error the span is ended with its status and events as they were; either
\* way the span is ended exactly once.
C25_EndFuncRecordsThenEnds ==
    \A k \in ClosureCalled :
        /\ \A t \in Threads :
              (pc[t] = "endFunc" /\ endFn[t].k = k) =>
                  /\ ~obj[hs[k].obj].ended
                  /\ obj[hs[k].obj].spanID = k
                  /\ CarriesClosureResult(obj[hs[k].obj], k)
        /\ \A e \in ExportsBy(k) :
              e.id = k /\ e.span.ended /\ CarriesClosureResult(e.span, k)
        /\ Cardinality(ExportsBy(k)) <= 1 /\ expCount[k] <= 1 /\ relCount[k] <= 1
        /\ endRet[k] =>
              IF hs[k].sampled
              THEN expCount[k] = 1 \/ (expCount[k] = 0 /\ Pending(k))
              ELSE /\ expCount[k] = 0
                   /\ obj[hs[k].obj].ended /\ obj[hs[k].obj].endTime # 0
                   /\ CarriesClosureResult(obj[hs[k].obj], k)

\* C25 witness: a closure called with an error on a span that had an event
\* has returned, and the worker has exported the span.
C25_Witness ==
    \E k \in ClosureCalled :
        /\ endFnLog[k].errPtr = "boom" /\ endFnLog[k].before.events # << >>
        /\ endRet[k]
        /\ \E e \in ExportsBy(k) : e.by = "worker"

\* The spans for which Start called the sampler.
SamplerCalled == {k \in Started : startLog[k].called}

\* All the attributes the WithAttributes options of a list give, in order, and
\* the start time its last WithStartTime option gives (else the time given).
RECURSIVE OptionAttributes(_)
OptionAttributes(opts) ==
    IF opts = << >> THEN << >>
    ELSE (IF Head(opts).fn = "WithAttributes" THEN Head(opts).attrs ELSE << >>)
             \o OptionAttributes(Tail(opts))

RECURSIVE OptionStartTime(_, _)
OptionStartTime(opts, time) ==
    IF opts = << >> THEN time
    ELSE OptionStartTime(Tail(opts),
                         IF Head(opts).fn = "WithStartTime" THEN Head(opts).time ELSE time)

\* C26: the SamplingParams Start gives the sampler hold the trace ID and the
\* parent ID the parent resolution gave and the name, whatever the options;
\* when the sampler is called the options have been applied to the span; two
\* Starts whose context gives the same trace ID and parent ID pass the same
\* SamplingParams and get the same decision, whatever their options.
C26_OptionsDoNotReachSampler ==
    /\ \A k \in SamplerCalled :
          LET c == startLog[k]
          IN /\ c.params = [TraceID |-> c.resolved.traceID, Name |-> "op",
                            ParentID |-> c.resolved.parentID]
             /\ c.seen = [c.resolved EXCEPT
                             !.attributes = @ \o OptionAttributes(c.opts),
                             !.startTime = OptionStartTime(c.opts, @)]
    /\ \A j, k \in SamplerCalled :
          (/\ startLog[j].resolved.traceID = startLog[k].resolved.traceID
           /\ startLog[j].resolved.parentID = startLog[k].resolved.parentID) =>
              /\ startLog[j].params = startLog[k].params
              /\ hs[j].sampled = hs[k].sampled

\* C26 witness: two Starts from a context with the same remote parent, one
\* without options and one with WithStartTime and WithAttributes, both sampled.
C26_Witness ==
    \E j, k \in SamplerCalled :
        /\ startLog[j].opts = << >> /\ Len(startLog[k].opts) = 2
        /\ startLog[k].seen.attributes # << >> /\ startLog[k].seen.startTime = 7
        /\ IsValid(startLog[j].params.ParentID)
        /\ startLog[j].params = startLog[k].params
        /\ hs[j].sampled /\ hs[k].sampled

Occurrences(seq, e) == Cardinality({i \in DOMAIN seq : seq[i] = e})

\* An accepted entry whose logging call returned is in the channel, with the
\* worker or in the output, once in all: it is not dropped and not doubled.
LogEntryKept(e) ==
    Occurrences(logs.output, e) + Occurrences(logs.ch.buf, e)
        + (IF logs.worker.e = e THEN 1 ELSE 0) = 1

\* C28: with AsyncBufferSize > 0, every entry accepted by a logging call that
\* returned before Close() was called has been written to the output exactly
\* once when Close() returns, and an entry that finds the channel full is
\* written synchronously instead of being dropped.
C28_AsyncFlushedByClose ==
    /\ \A c \in logs.closes : \A e \in c.before : Occurrences(c.out, e) = 1
    /\ \A e \in logs.returned : LogEntryKept(e)


\* C29: NewRateSampler(rate, window) lets at most `rate` Sample calls return
\* true per message between two resets of the message's window, from concurrent
\* threads too, the first calls for a message included; a call that finds the
\* window elapsed passes (no other call for the message overlapping it).
C29_RateLimited ==
    /\ \A m \in Messages : rateSampler.passed[m] <= rateSampler.rate
    /\ \A c \in rateSampler.log : (c.elapsed /\ ~c.overlapped) => c.result


\* The occurrences 1, n+1, 2n+1, ... of a message.
EveryNthFromFirst(k, n) == \E j \in 0..k : k = j * n + 1

\* C30: for every n >= 1 and each message, the k-th Sample call of
\* NewCountSampler(n) for the message returns true iff k is 1, n+1, 2n+1, ...
\* (every call for n = 1).
C30_EveryNth ==
    \A c \in countSampler.log : c.result <=> EveryNthFromFirst(c.count, countSampler.n)

\* The Sample calls for a message that have returned.
FirstNReturned(m) == {c \in firstNSampler.log : c.msg = m}

\* The smaller of two numbers.
FirstNMin(a, b) == IF a <= b THEN a ELSE b

\* C31: for each message the calls of Sample that got one of the first n
\* counts return true and every later call returns false; of the calls for a
\* message that have returned, from whatever threads, the number that returned
\* true is n once n calls with the first n counts have returned, and depends on
\* the calls for that message only.
C31_FirstN ==
    /\ \A c \in firstNSampler.log : c.result <=> c.count \in 1..firstNSampler.n
    /\ \A m \in Messages :
          /\ firstNSampler.passed[m] <= firstNSampler.n
          /\ firstNSampler.passed[m] =
                Cardinality({c \in FirstNReturned(m) : c.count <= firstNSampler.n})
          /\ (\A t \in Threads : firstNSampler.pc[t].pc = "idle") =>
                firstNSampler.passed[m] =
                   FirstNMin(Cardinality(FirstNReturned(m)), firstNSampler.n)

\* n = 2: the third call for "a" was rejected after two passed, while the
\* first call for "b" passed.
C31_Witness ==
    /\ firstNSampler.n = 2
    /\ firstNSampler.passed["a"] = 2
    /\ [msg |-> "a", count |-> 3, result |-> FALSE] \in firstNSampler.log
    /\ [msg |-> "b", count |-> 1, result |-> TRUE] \in firstNSampler.log

\* C32: Registry.Close() is idempotent (one call at most runs the shutdown, a
\* call made after Close() has returned changes nothing, the registry stays
\* closed) and, with a push loop, a Close() call returns only after pushLoop
\* has exited: PushExporter.Export is never called after Close() has returned.
C32_CloseWaitsForPushLoop ==
    /\ \A c \in registry.closes :
          /\ registry.pushCancel => c.pushLoop = "exited"
          /\ c.afterClose => ~c.ran
    /\ Cardinality({c \in registry.closes : c.ran}) <= 1
    /\ registry.closeRet =>
          /\ registry.closed
          /\ registry.pushLoop \in {"exited", "none"}
    /\ registry.exportsAfterClose = 0

\* With a push loop that has exported, and the ticker still running, Close()
\* has returned twice, the second call made after the first had returned.
C32_Witness ==
    /\ registry.pushCancel
    /\ registry.exports >= 1
    /\ registry.ticks < MaxPushes
    /\ \E c \in registry.closes : c.ran
    /\ \E c \in registry.closes : c.afterClose

\* C39: a Register call made once a Close() call has returned gets
\* ErrRegistryClosed; a Register call on an open registry gets ErrMetricExists
\* iff a metric with the same name is registered; either error leaves the
\* registered metrics as they were; a call that returns nil has registered its
\* metric; Get(name) returns the metric of the latest successful Register for
\* the name, and ErrMetricNotFound if there was none or Unregister(name) came
\* after it.
C39_RegisterErrors ==
    /\ \A c \in registry.regLog :
          /\ c.afterClose => c.err = "ErrRegistryClosed"
          /\ c.err = "ErrMetricExists" => c.before[MetricName(c.m)] # NoMetric
          /\ c.err = "nil" => /\ c.before[MetricName(c.m)] = NoMetric
                              /\ c.after = [c.before EXCEPT ![MetricName(c.m)] = c.m]
          /\ c.err # "nil" => c.after = c.before
    /\ registry.metrics = registry.expect
    /\ \A g \in registry.getLog :
          g.got = IF g.expect = NoMetric
                  THEN [m |-> NoMetric, err |-> "ErrMetricNotFound"]
                  ELSE [m |-> g.expect, err |-> "nil"]

\* Register("x2") got ErrMetricExists while "x1" was registered, Get("x")
\* returned "x1", and a Register call after Close() got ErrRegistryClosed.
C39_Witness ==
    /\ \E c \in registry.regLog :
          c.m = "x2" /\ c.err = "ErrMetricExists" /\ c.before["x"] = "x1"
    /\ \E c \in registry.regLog : c.afterClose /\ c.err = "ErrRegistryClosed"
    /\ \E g \in registry.getLog : g.name = "x" /\ g.got.m = "x1"

\* The exports under way: the End() call behind each and the object it holds
\* (in the queue, in the worker's hands, or on the caller's thread).
ExportsUnderWay ==
    {[k |-> queue[i].call, o |-> queue[i].o] : i \in 1..Len(queue)}
    \cup {[k |-> worker.call, o |-> worker.o] : x \in {u \in {1} : worker.pc = "export"}}
    \cup {[k |-> cur[t].k, o |-> cur[t].o] :
             t \in {u \in Threads : pc[u] \in {"send", "export"}}}

\* The span the exporter is given is span k as Start handed it out, with its
\* end time stamped.
OwnSpan(s, k) ==
    /\ s.spanID = k
    /\ s.traceID = hs[k].traceID
    /\ s.name = "op"
    /\ s.tracer /\ s.sampled
    /\ s.ended /\ s.endTime # 0

\* C33: synchronous or asynchronous, every Exporter.Export call that an End()
\* call on a span leads to sees that span (its span ID, trace ID and name),
\* ended and with its end time, and an object that waits for its export is
\* that span still and is not in the pool: the exporter never sees a reset or
\* re-used object.
C33_ExportSeesOwnSpan ==
    /\ \A e \in expLog : e.call \in Started /\ OwnSpan(e.span, e.call)
    /\ \A x \in ExportsUnderWay :
          /\ OwnSpan(obj[x.o], x.k)
          /\ pool[x.o] = 0

\* The entries of a sequence that calls on span k wrote.
WrittenOn(seq, k) == SelectSeq(seq, LAMBDA e : e.k = k)

\* C34: a SetAttribute, SetAttributes, AddEvent or SetStatus call made on a
\* span whose End() has not returned writes, if it writes at all, to the
\* object while it still is that span and has not been released (a write
\* after the export and before the release is lost with the reset: it has no
\* effect); no object carries an attribute or event written by a call on
\* another span than the one it is.
C34_RacingMutationNeverLate ==
    /\ \A m \in writes.applied : m.id = m.k /\ ~m.released
    /\ \A o \in 1..nalloc :
          /\ WrittenOn(obj[o].attributes, obj[o].spanID) = obj[o].attributes
          /\ WrittenOn(obj[o].events, obj[o].spanID) = obj[o].events

\* Span.Attributes: a copy of s.attributes, made under the mutex.
Attributes(s) == s.attributes

\* Span.Events: a copy of s.events, made under the mutex.
Events(s) == s.events

\* The calls of the given methods on span k that have written.
AppliedOn(k, kinds) == {m \in writes.applied : m.k = k /\ m.kind \in kinds}

\* How many entries of a sequence the call m wrote.
EntriesOf(seq, m) ==
    Cardinality({i \in 1..Len(seq) : seq[i] = Written(m.k, m.by, m.n)})

\* The entries one thread wrote stand in the order of its calls.
InCallOrder(seq) ==
    \A i, j \in 1..Len(seq) : (i < j /\ seq[i].by = seq[j].by) => seq[i].n <= seq[j].n

\* C35: on a span that has not been ended, the SetAttribute, SetAttributes and
\* AddEvent calls that have completed, from whatever threads, are all kept:
\* Attributes() holds one entry for every SetAttribute call and two for every
\* SetAttributes call of two attributes (the same key twice: nothing is merged
\* or overwritten), Events() one entry for every AddEvent call, and nothing
\* else; the entries of one thread stand in the order of its calls.
C35_ConcurrentWritesKept ==
    \A k \in Started :
        LET s == obj[hs[k].obj]
        IN (~s.noop /\ ~s.ended) =>
              /\ \A m \in AppliedOn(k, {"SetAttribute"}) : EntriesOf(Attributes(s), m) = 1
              /\ \A m \in AppliedOn(k, {"SetAttributes"}) : EntriesOf(Attributes(s), m) = 2
              /\ \A m \in AppliedOn(k, {"AddEvent"}) : EntriesOf(Events(s), m) = 1
              /\ Len(Attributes(s)) = Cardinality(AppliedOn(k, {"SetAttribute"}))
                                      + 2 * Cardinality(AppliedOn(k, {"SetAttributes"}))
              /\ Len(Events(s)) = Cardinality(AppliedOn(k, {"AddEvent"}))
              /\ InCallOrder(Attributes(s))
              /\ InCallOrder(Events(s))

\* Two threads wrote attributes to one span that is not ended: a call that
\* began later wrote first, and one thread wrote twice.
C35_Witness ==
    \E k \in Started :
        LET a == Attributes(obj[hs[k].obj])
        IN /\ ~obj[hs[k].obj].ended
           /\ Len(a) >= 3
           /\ \E i, j \in 1..Len(a) : i < j /\ a[i].by # a[j].by /\ a[i].n > a[j].n
           /\ \E i, j \in 1..Len(a) : i < j /\ a[i].by = a[j].by /\ a[i].n < a[j].n

\* The threshold p * 2^32 of the claim, for a ratio in thousandths.
ThresholdTimesTwo32(ratio) ==
    LET a == ratio * Half
    IN [hi |-> a \div 1000, lo |-> ((a % 1000) * Half) \div 1000]

\* C36: TraceIDRatioSample(p).ShouldSample is true exactly when the FNV-1a hash
\* of the trace ID is below p * 2^32: ratio 1 samples every trace ID, ratio 0
\* none, and a trace ID sampled at a ratio is sampled at every larger ratio.
C36_TraceIDRatioThreshold ==
    /\ \A c \in TraceIDRatioCalls :
          /\ c.result <=> Less32(TraceIDHash[c.params.TraceID], ThresholdTimesTwo32(c.ratio))
          /\ c.ratio = 1000 => c.result
          /\ c.ratio = 0 => ~c.result
    /\ \A c, d \in TraceIDRatioCalls :
          (c.params.TraceID = d.params.TraceID /\ c.ratio <= d.ratio /\ c.result) => d.result

\* The lines of what was written: the bytes before every newline.
RECURSIVE LinesFrom(_, _)
LinesFrom(bytes, line) ==
    IF bytes = << >> THEN << >>
    ELSE IF Head(bytes) = "\n" THEN << line >> \o LinesFrom(Tail(bytes), << >>)
    ELSE LinesFrom(Tail(bytes), Append(line, Head(bytes)))

Lines(bytes) == LinesFrom(bytes, << >>)

\* C37: every Export call that has returned wrote one line, which is the
\* complete JSON object of its span, in the order in which the calls returned,
\* whatever threads call Export at the same time.
C37_OneObjectPerLine ==
    LET lines == Lines(writerExporter.writer)
    IN /\ Len(lines) = Len(writerExporter.returned)
       /\ \A i \in 1..Len(lines) : lines[i] = << "{", writerExporter.returned[i].id, "}" >>


\* A logging call paniced: its send met the closed channel.
SendOnClosed == \E t \in Threads : logs.pc[t].pc = "panicked" /\ logs.pc[t].e # 0

\* A Close() call paniced: its close(l.asyncCh) met the closed channel.
ClosedTwice == \E t \in Threads : logs.pc[t].pc = "panicked" /\ logs.pc[t].e = 0

\* C38: with a logger derived by With() or Named() from an asynchronous logger,
\* in any order of logging calls and Close() calls on the two loggers no logging
\* call sends on the closed channel, the channel is never closed twice, and a
\* Close() call on either logger returns only once the entries that were queued
\* when it was called are in the output.
C38_DerivedLoggerSharesQueue ==
    /\ ~SendOnClosed
    /\ ~ClosedTwice
    /\ \A c \in logs.closes : \A e \in c.before : \E i \in DOMAIN c.out : c.out[i] = e

====
